---- MODULE Spec2Model ----
(***************************************************************************)
(* A model of the EvalPro chess analyzer: the cache-first analysis         *)
(* provider (analysis_provider.py, db_manager.py, stockfish_controller.py),*)
(* the run loop (pipeline.py, game_processor.py) and the move classifier   *)
(* (move_classifier.py, context_builders.py, chess_utils.py).              *)
(*                                                                         *)
(* Numbers: engine scores are integral centipawns, so every float of the   *)
(* classifier is modelled by the integer it holds.  Material is counted in *)
(* tenths of a pawn (pawn = 10, bishop = 32), which makes the piece values *)
(* and the 2.5-pawn sacrifice threshold integers.                          *)
(*                                                                         *)
(* An Optional[T] is the empty tuple (None) or the one-element tuple <<v>>.*)
(***************************************************************************)
EXTENDS Integers, Sequences, FiniteSets, TLC

None == <<>>
Some(v) == <<v>>
Val(x) == x[1]

Min(a, b) == IF a <= b THEN a ELSE b
Max(a, b) == IF a >= b THEN a ELSE b
Abs(a) == IF a >= 0 THEN a ELSE -a

WHITE == TRUE
BLACK == FALSE

(***************************************************************************)
(* config/settings.py                                                      *)
(***************************************************************************)
MATE_SCORE_EQUIVALENT_CP == 30000
CPL_INDIVIDUAL_EVAL_CAP_CP == 1000
ACPL_MOVE_CPL_CAP_CP == 1000

MOVE_CLASSIFICATION_THRESHOLDS ==
    << <<"Best", 5>>, <<"Good", 40>>, <<"OK", 70>>, <<"Dubious", 90>>,
       <<"Inaccuracy", 180>>, <<"Mistake", 300>> >>

\* min_sacrifice_net_material_pawns is 2.5 pawns, here in tenths of a pawn
BRILLIANT_CRITERIA ==
    [ max_cpl |-> 20,
      eval_drop_leniency_cp |-> 15,
      max_eval_before_move_cp |-> 350,
      min_sacrifice_net_material_pawns |-> 25 ]

GREAT_CRITERIA == [ min_uniqueness_gain_cp |-> 120 ]

(***************************************************************************)
(* utils/chess_utils.py: piece values in tenths of a pawn.  A board is     *)
(* [turn, w, b] where w and b count the pieces of each type.               *)
(***************************************************************************)
PIECE_VALUES == [P |-> 10, N |-> 30, B |-> 32, R |-> 50, Q |-> 90, K |-> 0]

get_material_value(board, color) ==
    LET cnt == IF color = WHITE THEN board.w ELSE board.b
    IN  cnt.P * PIECE_VALUES.P + cnt.N * PIECE_VALUES.N + cnt.B * PIECE_VALUES.B
        + cnt.R * PIECE_VALUES.R + cnt.Q * PIECE_VALUES.Q + cnt.K * PIECE_VALUES.K

get_material_diff(board, perspective_color) ==
    get_material_value(board, perspective_color)
    - get_material_value(board, ~perspective_color)

(***************************************************************************)
(* An engine line is [Move, Centipawn, Mate]; a score field is             *)
(* [k |-> "none"] (key missing), [k |-> "num", v |-> n] or [k |-> "bad"]   *)
(* (a value int()/float() rejects).                                        *)
(***************************************************************************)
NoField == [k |-> "none", v |-> 0]
Num(n) == [k |-> "num", v |-> n]
BadField == [k |-> "bad", v |-> 0]

CpLine(mv, cp) == [Move |-> mv, Centipawn |-> Num(cp), Mate |-> NoField]
MateLine(mv, m) == [Move |-> mv, Centipawn |-> NoField, Mate |-> Num(m)]

(***************************************************************************)
(* context_builders.py: get_score_from_line.  line is an Optional line;    *)
(* the result is <<score, is_mate, mate_moves>> with Optional score and    *)
(* mate_moves.                                                             *)
(***************************************************************************)
\* a normalizer that hands Black the mate distance as White counts it
get_score_from_line_same_distance(line, perspective) ==
    IF line = None THEN <<None, FALSE, None>>
    ELSE
      LET mate_val == Val(line).Mate
          cp_val == Val(line).Centipawn
          parsed ==
            IF mate_val.k # "none"
            THEN IF mate_val.k = "bad" THEN <<None, FALSE, None>>
                 ELSE IF mate_val.v = 0 THEN <<Some(0), FALSE, Some(0)>>
                 ELSE IF mate_val.v > 0
                      THEN <<Some(MATE_SCORE_EQUIVALENT_CP - Abs(mate_val.v)), TRUE, Some(mate_val.v)>>
                      ELSE <<Some(-MATE_SCORE_EQUIVALENT_CP + Abs(mate_val.v)), TRUE, Some(mate_val.v)>>
            ELSE IF cp_val.k = "num" THEN <<Some(cp_val.v), FALSE, None>>
                 ELSE <<None, FALSE, None>>
      IN  IF parsed[1] = None THEN <<None, FALSE, None>>
          ELSE IF perspective = WHITE THEN parsed
               ELSE <<Some(-Val(parsed[1])), parsed[2],
                      IF parsed[2] THEN parsed[3] ELSE None>>

\* a normalizer that falls back on the centipawn field when the mate field
\* does not parse
get_score_from_line_fallback(line, perspective) ==
    IF line = None THEN <<None, FALSE, None>>
    ELSE
      LET mate_val == Val(line).Mate
          cp_val == Val(line).Centipawn
          parsed ==
            IF mate_val.k = "num"
            THEN IF mate_val.v = 0 THEN <<Some(0), FALSE, Some(0)>>
                 ELSE IF mate_val.v > 0
                      THEN <<Some(MATE_SCORE_EQUIVALENT_CP - Abs(mate_val.v)), TRUE, Some(mate_val.v)>>
                      ELSE <<Some(-MATE_SCORE_EQUIVALENT_CP + Abs(mate_val.v)), TRUE, Some(mate_val.v)>>
            ELSE IF cp_val.k = "num" THEN <<Some(cp_val.v), FALSE, None>>
                 ELSE <<None, FALSE, None>>
      IN  IF parsed[1] = None THEN <<None, FALSE, None>>
          ELSE IF perspective = WHITE THEN parsed
               ELSE <<Some(-Val(parsed[1])), parsed[2],
                      IF parsed[2] /\ parsed[3] # None THEN Some(-Val(parsed[3])) ELSE None>>

get_score_from_line(line, perspective) ==
    IF line = None THEN <<None, FALSE, None>>
    ELSE
      LET mate_val == Val(line).Mate
          cp_val == Val(line).Centipawn
          parsed ==
            IF mate_val.k # "none"
            THEN IF mate_val.k = "bad" THEN <<None, FALSE, None>>
                 ELSE IF mate_val.v = 0 THEN <<Some(0), FALSE, Some(0)>>
                 ELSE IF mate_val.v > 0
                      THEN <<Some(MATE_SCORE_EQUIVALENT_CP - Abs(mate_val.v)), TRUE, Some(mate_val.v)>>
                      ELSE <<Some(-MATE_SCORE_EQUIVALENT_CP + Abs(mate_val.v)), TRUE, Some(mate_val.v)>>
            ELSE IF cp_val.k = "num" THEN <<Some(cp_val.v), FALSE, None>>
                 ELSE <<None, FALSE, None>>
          score_wpov == parsed[1]
          is_mate == parsed[2]
          mate_moves_wpov == parsed[3]
      IN  IF score_wpov = None THEN <<None, FALSE, None>>
          ELSE IF perspective = WHITE
               THEN <<score_wpov, is_mate, mate_moves_wpov>>
               ELSE <<Some(-Val(score_wpov)), is_mate,
                      IF is_mate /\ mate_moves_wpov # None
                      THEN Some(-Val(mate_moves_wpov)) ELSE None>>

(***************************************************************************)
(* analyses is a function from position keys to Optional line lists;       *)
(* dict.get(key) is None for a missing key.                                *)
(***************************************************************************)
DictGet(d, key) == IF key \in DOMAIN d THEN d[key] ELSE None

\* Python truthiness of an Optional list: neither None nor empty
Truthy(optlist) == optlist # None /\ Len(Val(optlist)) > 0

build_move_analysis_context(move_data, analyses, multipv_setting) ==
    LET lines_before == DictGet(analyses, move_data.fen_before_move)
        lines_after == DictGet(analyses, move_data.fen_after_move)
        player == move_data.board_before_move.turn
        best_line == IF Truthy(lines_before) THEN Some(Val(lines_before)[1]) ELSE None
        second_best_line ==
            IF Truthy(lines_before) /\ Len(Val(lines_before)) > 1
            THEN Some(Val(lines_before)[2]) ELSE None
        player_move_line == IF Truthy(lines_after) THEN Some(Val(lines_after)[1]) ELSE None
        best == get_score_from_line(best_line, player)
        second == get_score_from_line(second_best_line, player)
        played == get_score_from_line(player_move_line, player)
    IN  [ eval_best_move |-> best[1], is_mate_best_move |-> best[2],
          eval_second_best_move |-> second[1], is_mate_second_best_move |-> second[2],
          eval_player_move |-> played[1], is_mate_player_move |-> played[2],
          eval_before_move |-> best[1], is_mate_before_move |-> best[2],
          engine_top_lines |-> IF Truthy(lines_before) THEN Val(lines_before) ELSE <<>>,
          player_move_uci |-> move_data.actual_move_obj,
          board_before_move |-> move_data.board_before_move,
          board_after_move |-> move_data.board_after_move,
          player_color |-> player,
          engine_multipv |-> multipv_setting,
          brilliant_criteria |-> BRILLIANT_CRITERIA,
          great_criteria |-> GREAT_CRITERIA ]

(***************************************************************************)
(* analysis/move_classifier.py                                             *)
(***************************************************************************)
\* types.py: ClassificationResult; its text is [name, suffix, cpl], printed
\* as "name", "name (suffix)" or "name (CPL: cpl)"
Text(name, suffix, cpl) == [name |-> name, suffix |-> suffix, cpl |-> cpl]

ClassificationResult(text, cpl, raw_cpl, is_brilliant, is_great, top, top_n) ==
    [ classification_text |-> text, cpl |-> cpl, raw_cpl |-> raw_cpl,
      is_brilliant |-> is_brilliant, is_great |-> is_great,
      is_engine_top_choice |-> top, is_engine_top_n_choice |-> top_n ]

\* the outcome of a call: a returned value or a raised exception
Return(v) == [kind |-> "return", exc |-> "", value |-> Some(v)]
Raise(e) == [kind |-> "raise", exc |-> e, value |-> None]

\* Python call cls(**fields, k1=v1, ...): a keyword given twice is a TypeError
CallWithKeywords(fields, extra) ==
    IF (DOMAIN fields) \cap (DOMAIN extra) # {}
    THEN Raise("TypeError")
    ELSE Return(fields @@ extra)

\* a cap that clamps nothing
cap_score_unclamped(score_cp, is_mate) ==
    IF score_cp = None THEN 0 ELSE Val(score_cp)

cap_score(score_cp, is_mate) ==
    IF score_cp = None THEN 0
    ELSE IF is_mate THEN Val(score_cp)
    ELSE Min(CPL_INDIVIDUAL_EVAL_CAP_CP, Max(-CPL_INDIVIDUAL_EVAL_CAP_CP, Val(score_cp)))

is_significant_piece_sacrifice(context) ==
    LET diff_before == get_material_diff(context.board_before_move, context.player_color)
        diff_after == get_material_diff(context.board_after_move, context.player_color)
        net_material_loss == diff_before - diff_after
    IN  net_material_loss >= context.brilliant_criteria.min_sacrifice_net_material_pawns

\* Optional ClassificationResult
check_for_brilliant(context, raw_cpl) ==
    LET criteria == context.brilliant_criteria
    IN  IF context.eval_player_move = None \/ context.eval_before_move = None THEN None
        ELSE IF raw_cpl > criteria.max_cpl THEN None
        ELSE IF context.is_mate_before_move /\ Val(context.eval_before_move) > 0 THEN None
        ELSE IF ~context.is_mate_before_move
                /\ Val(context.eval_before_move) > criteria.max_eval_before_move_cp THEN None
        ELSE IF Val(context.eval_before_move) - Val(context.eval_player_move)
                > criteria.eval_drop_leniency_cp THEN None
        ELSE IF ~is_significant_piece_sacrifice(context) THEN None
        ELSE Some(ClassificationResult(Text("Brilliant", "", 0), 0, raw_cpl,
                                       TRUE, FALSE, FALSE, FALSE))

\* a uniqueness test that wants the gap to exceed the minimum
check_for_great_strict_gap(context, is_top_choice) ==
    LET criteria == context.great_criteria
    IN  IF ~is_top_choice \/ context.engine_multipv < 2 THEN None
        ELSE IF context.eval_best_move = None \/ context.eval_second_best_move = None THEN None
        ELSE IF context.is_mate_best_move \/ context.is_mate_second_best_move THEN None
        ELSE IF Val(context.eval_best_move) - Val(context.eval_second_best_move)
                <= criteria.min_uniqueness_gain_cp THEN None
        ELSE Some(ClassificationResult(Text("Great Move !", "", 0), 0, 0,
                                       FALSE, TRUE, TRUE, TRUE))

\* Optional ClassificationResult
check_for_great(context, is_top_choice) ==
    LET criteria == context.great_criteria
    IN  IF ~is_top_choice \/ context.engine_multipv < 2 THEN None
        ELSE IF context.eval_best_move = None \/ context.eval_second_best_move = None THEN None
        ELSE IF context.is_mate_best_move \/ context.is_mate_second_best_move THEN None
        ELSE IF Val(context.eval_best_move) - Val(context.eval_second_best_move)
                < criteria.min_uniqueness_gain_cp THEN None
        ELSE Some(ClassificationResult(Text("Great Move !", "", 0), 0, 0,
                                       FALSE, TRUE, TRUE, TRUE))

RECURSIVE TierFrom(_, _)
TierFrom(i, cpl) ==
    IF i > Len(MOVE_CLASSIFICATION_THRESHOLDS) THEN "Blunder"
    ELSE IF cpl <= MOVE_CLASSIFICATION_THRESHOLDS[i][2]
         THEN MOVE_CLASSIFICATION_THRESHOLDS[i][1]
         ELSE TierFrom(i + 1, cpl)

\* a walk that compares with < in place of <=
get_standard_classification_strict(cpl) ==
    LET below == { i \in 1..Len(MOVE_CLASSIFICATION_THRESHOLDS) :
                     cpl < MOVE_CLASSIFICATION_THRESHOLDS[i][2] }
    IN  IF below = {} THEN "Blunder"
        ELSE MOVE_CLASSIFICATION_THRESHOLDS[CHOOSE i \in below : \A j \in below : i <= j][1]

get_standard_classification(cpl) == TierFrom(1, cpl)

\* classify_move without the early return on missing data
classify_move_unguarded(context) ==
    LET capped_eval_best == cap_score(context.eval_best_move, context.is_mate_best_move)
        capped_eval_player == cap_score(context.eval_player_move, context.is_mate_player_move)
        raw_cpl == capped_eval_best - capped_eval_player
        cpl_for_metrics == Min(ACPL_MOVE_CPL_CAP_CP, Max(0, raw_cpl))
        top_lines == context.engine_top_lines
        is_top_choice == Len(top_lines) > 0 /\ context.player_move_uci = top_lines[1].Move
        is_top_n_choice ==
            is_top_choice
            \/ \E i \in 1..Len(top_lines) : context.player_move_uci = top_lines[i].Move
        brilliant_result == check_for_brilliant(context, raw_cpl)
        great_result == check_for_great(context, is_top_choice)
        classification_name == get_standard_classification(cpl_for_metrics)
    IN  IF brilliant_result # None
        THEN CallWithKeywords(Val(brilliant_result),
                              [ is_engine_top_choice |-> is_top_choice,
                                is_engine_top_n_choice |-> is_top_n_choice ])
        ELSE IF great_result # None THEN Return(Val(great_result))
        ELSE Return(ClassificationResult(Text(classification_name, "CPL", cpl_for_metrics),
                                         cpl_for_metrics, raw_cpl,
                                         FALSE, FALSE, is_top_choice, is_top_n_choice))

classify_move(context) ==
    IF context.eval_best_move = None \/ context.eval_player_move = None
    THEN Return(ClassificationResult(Text("Unavailable", "eval error", 0), 0, 0,
                                     FALSE, FALSE, FALSE, FALSE))
    ELSE
      LET capped_eval_best == cap_score(context.eval_best_move, context.is_mate_best_move)
          capped_eval_player == cap_score(context.eval_player_move, context.is_mate_player_move)
          raw_cpl == capped_eval_best - capped_eval_player
          cpl_for_metrics == Min(ACPL_MOVE_CPL_CAP_CP, Max(0, raw_cpl))
          top_lines == context.engine_top_lines
          is_top_choice ==
              Len(top_lines) > 0 /\ context.player_move_uci = top_lines[1].Move
          is_top_n_choice ==
              is_top_choice
              \/ \E i \in 1..Len(top_lines) : context.player_move_uci = top_lines[i].Move
          brilliant_result == check_for_brilliant(context, raw_cpl)
          great_result == check_for_great(context, is_top_choice)
          classification_name == get_standard_classification(cpl_for_metrics)
          classification_text ==
              IF classification_name = "Best" THEN Text("Best", "", 0)
              ELSE IF classification_name = "Blunder"
                   THEN Text("Blunder !!!", "CPL", cpl_for_metrics)
                   ELSE Text(classification_name, "CPL", cpl_for_metrics)
      IN  IF brilliant_result # None
          THEN CallWithKeywords(Val(brilliant_result),
                                [ is_engine_top_choice |-> is_top_choice,
                                  is_engine_top_n_choice |-> is_top_n_choice ])
          ELSE IF great_result # None THEN Return(Val(great_result))
          ELSE Return(ClassificationResult(classification_text, cpl_for_metrics, raw_cpl,
                                           FALSE, FALSE, is_top_choice, is_top_n_choice))

(***************************************************************************)
(* Bounds of the model                                                     *)
(***************************************************************************)
NumFens == 2       \* distinct positions
MaxMoves == 2      \* plies of a game
MaxGames == 2      \* games of the input PGN file
MaxPriorRows == 1  \* rows earlier runs left in the cache file

(***************************************************************************)
(* Positions and games.  A position reached by a piece move is a positive  *)
(* number; the side to move alternates with its parity and position 1 is   *)
(* materially level, the other positions have White a knight down.  The    *)
(* position after a null move ("--" in the PGN, chess.Move.null()) is the  *)
(* same position with the other side to move, written as the negative      *)
(* number.  A game is the sequence of positions of its main line: game[1]  *)
(* is game.board(), game[i+1] the position after the i-th move.            *)
(***************************************************************************)
Fens == 1..NumFens

\* chess.Board.push(chess.Move.null()): only the side to move changes
NullOf(fen) == 0 - fen

AllFens == Fens \cup { NullOf(fen) : fen \in Fens }

Pieces(p, n, b, r, q, k) == [P |-> p, N |-> n, B |-> b, R |-> r, Q |-> q, K |-> k]

BoardOf(fen) ==
    [ turn |-> ((Abs(fen) % 2 = 1) = (fen > 0)),
      w |-> IF Abs(fen) = 1 THEN Pieces(1, 1, 0, 0, 0, 1) ELSE Pieces(1, 0, 0, 0, 0, 1),
      b |-> Pieces(1, 1, 0, 0, 0, 1) ]

\* the i-th node of the main line holds a null move
IsNullMove(g, i) == g[i + 1] < 0

UciOf(fen_before, fen_after) == IF fen_after < 0 THEN "0000" ELSE IF fen_after > Abs(fen_before) THEN "m1" ELSE "m2"

Games ==
    { g \in UNION { [1..n -> AllFens] : n \in 1..(MaxMoves + 1) } :
        /\ g[1] \in Fens
        /\ \A i \in 1..(Len(g) - 1) :
             /\ BoardOf(g[i]).turn # BoardOf(g[i + 1]).turn
             /\ IsNullMove(g, i) => g[i + 1] = NullOf(g[i]) }

\* pgn_handler.py: collect_move_data_and_fens (the MoveData list); a node's
\* move is never None on the main line, so null moves are collected too
collect_move_data(g) ==
    [ i \in 1..(Len(g) - 1) |->
        [ actual_move_obj |-> UciOf(g[i], g[i + 1]),
          board_before_move |-> BoardOf(g[i]),
          board_after_move |-> BoardOf(g[i + 1]),
          fen_before_move |-> g[i],
          fen_after_move |-> g[i + 1] ] ]

\* analysis_provider.py: _get_required_fens, the local board after the loop
\* has seen j - 1 nodes: "if not node.move: continue" leaves the board where
\* it was on a null move (a null move is falsy), and the next move is then
\* pushed on a board that has the wrong side to move
RECURSIVE planner_board(_, _)
planner_board(g, j) ==
    IF j = 1 THEN g[1]
    ELSE IF IsNullMove(g, j - 1) THEN planner_board(g, j - 1)
    ELSE IF planner_board(g, j - 1) = g[j - 1] THEN g[j] ELSE NullOf(g[j])

\* analysis_provider.py: _get_required_fens
get_required_fens(g) ==
    {g[1]} \cup UNION { {planner_board(g, i), planner_board(g, i + 1)} :
                          i \in { k \in 1..(Len(g) - 1) : ~IsNullMove(g, k) } }

(***************************************************************************)
(* The engine: what get_top_moves returns for a position it accepts, from  *)
(* White's point of view.  The engine is taken to be deterministic at      *)
(* fixed parameters.                                                       *)
(***************************************************************************)
TopMoves(fen) ==
    IF fen = 1 THEN << CpLine("m1", 400), CpLine("m2", 250) >>
    ELSE << CpLine("m2", 400), CpLine("m1", 390) >>

(***************************************************************************)
(* cache/db_manager.py.  The table is a function from primary keys         *)
(* (types.py: CacheKey) to the stored analysis_result_json text.           *)
(***************************************************************************)
CacheKey(fen, analysis_depth, multipv_count, stockfish_path_canon, stockfish_version) ==
    [ fen |-> fen, analysis_depth |-> analysis_depth, multipv_count |-> multipv_count,
      stockfish_path_canon |-> stockfish_path_canon, stockfish_version |-> stockfish_version ]

\* the (depth, line-count, engine path, engine version) of a pipeline
Params == { [analysis_depth |-> d, multipv_count |-> 2,
             stockfish_path |-> "sf", stockfish_version |-> "16"] : d \in {12, 18} }

\* json.dumps of a line list, and a text json.loads rejects
json_dumps(result) == [json |-> TRUE, text |-> Some(result)]
CorruptJson == [json |-> FALSE, text |-> None]
json_decodes(text) == text.json
json_loads(text) == Val(text.text)

\* a batch read whose WHERE clause leaves out the list of positions
get_cached_analyses_batch_all_fens(table, fens, analysis_depth, multipv_count, stockfish_path_canon, stockfish_version) ==
    LET rows == { k \in DOMAIN table :
                    /\ k.analysis_depth = analysis_depth
                    /\ k.multipv_count = multipv_count
                    /\ k.stockfish_path_canon = stockfish_path_canon
                    /\ k.stockfish_version = stockfish_version
                    /\ json_decodes(table[k]) }
    IN  [ fen \in { k.fen : k \in rows } |->
            Some(json_loads(table[CacheKey(fen, analysis_depth, multipv_count,
                                           stockfish_path_canon, stockfish_version)])) ]

\* a lookup that gives up on the whole response at a record it cannot decode
get_cached_analyses_batch_all_or_nothing(table, fens, analysis_depth, multipv_count, stockfish_path_canon, stockfish_version) ==
    LET rows == { k \in DOMAIN table :
                    /\ k.analysis_depth = analysis_depth
                    /\ k.multipv_count = multipv_count
                    /\ k.stockfish_path_canon = stockfish_path_canon
                    /\ k.stockfish_version = stockfish_version
                    /\ k.fen \in fens }
    IN  IF \E k \in rows : ~json_decodes(table[k]) THEN <<>>
        ELSE [ fen \in { k.fen : k \in rows } |->
                 Some(json_loads(table[CacheKey(fen, analysis_depth, multipv_count,
                                                stockfish_path_canon, stockfish_version)])) ]

\* a lookup whose WHERE clause leaves out the engine version
get_cached_analyses_batch_any_version(table, fens, analysis_depth, multipv_count, stockfish_path_canon, stockfish_version) ==
    LET rows == { k \in DOMAIN table :
                    /\ k.analysis_depth = analysis_depth
                    /\ k.multipv_count = multipv_count
                    /\ k.stockfish_path_canon = stockfish_path_canon
                    /\ k.fen \in fens
                    /\ json_decodes(table[k]) }
    IN  [ fen \in { k.fen : k \in rows } |->
            Some(json_loads(table[CHOOSE k \in rows : k.fen = fen])) ]

\* a lookup whose WHERE clause leaves out the depth
get_cached_analyses_batch_any_depth(table, fens, analysis_depth, multipv_count, stockfish_path_canon, stockfish_version) ==
    LET rows == { k \in DOMAIN table :
                    /\ k.multipv_count = multipv_count
                    /\ k.stockfish_path_canon = stockfish_path_canon
                    /\ k.stockfish_version = stockfish_version
                    /\ k.fen \in fens
                    /\ json_decodes(table[k]) }
    IN  [ fen \in { k.fen : k \in rows } |->
            Some(json_loads(table[CHOOSE k \in rows : k.fen = fen])) ]

get_cached_analyses_batch(table, fens, analysis_depth, multipv_count, stockfish_path_canon, stockfish_version) ==
    LET rows == { k \in DOMAIN table :
                    /\ k.analysis_depth = analysis_depth
                    /\ k.multipv_count = multipv_count
                    /\ k.stockfish_path_canon = stockfish_path_canon
                    /\ k.stockfish_version = stockfish_version
                    /\ k.fen \in fens
                    /\ json_decodes(table[k]) }
    IN  [ fen \in { k.fen : k \in rows } |->
            Some(json_loads(table[CacheKey(fen, analysis_depth, multipv_count,
                                           stockfish_path_canon, stockfish_version)])) ]

\* INSERT OR IGNORE in place of INSERT OR REPLACE
store_analyses_batch_or_ignore(table, entries) ==
    [ k \in (DOMAIN table) \cup (DOMAIN entries) |->
        IF k \in DOMAIN table THEN table[k] ELSE json_dumps(entries[k]) ]

\* entries: a function from CacheKey to the analysis_result to store
store_analyses_batch(table, entries) ==
    [ k \in (DOMAIN table) \cup (DOMAIN entries) |->
        IF k \in DOMAIN entries THEN json_dumps(entries[k]) ELSE table[k] ]

\* the tables earlier runs can have left: rows written by the provider under
\* some parameters, each possibly damaged since
PriorTables ==
    { t \in UNION { [ks -> {"ok", "corrupt"}] :
                      ks \in SUBSET { CacheKey(f, p.analysis_depth, p.multipv_count,
                                               p.stockfish_path, p.stockfish_version) :
                                      f \in Fens, p \in Params } } :
        Cardinality(DOMAIN t) <= MaxPriorRows }

PriorTable(t) ==
    [ k \in DOMAIN t |-> IF t[k] = "ok" THEN json_dumps(TopMoves(k.fen)) ELSE CorruptJson ]

(***************************************************************************)
(* State                                                                   *)
(***************************************************************************)
VARIABLES
    cache,           \* DBManager: the fen_analysis_cache table
    engine_up,       \* StockfishController._stockfish is not None
    engine_closed,   \* StockfishController._is_closed
    shutdown_event,  \* AnalysisPipeline.shutdown_event
    stats,           \* StatisticsTracker.stats
    params,          \* the provider's (depth, line-count, path, version)
    pc,              \* where AnalysisPipeline.run stands
    input,           \* the number of games of the input file not yet streamed
    game,            \* the game being processed
    prov,            \* the frame of AnalysisProvider.get_analyses_for_game
    progress,        \* the progress reporter: [total, n]
    outfile,         \* games exported to the output file by this run
    run_end,         \* how the run ended: "", "eof", "cancelled", "forced" or "fatal"
    outcome,         \* history: how the last game ended ("analyzed" or the exception)
    prev,            \* history: the resolution of the game before this one
    move_input,      \* classifier study: the move and its analyses
    class_result,    \* classifier study: outcome of classify_move
    cstep,           \* classifier study: "input", "classified" or "kept"
    line_input,      \* normalizer study: the line and the perspective
    score_result,    \* normalizer study: what get_score_from_line returned, if called
    summary_input,   \* summary study: headers, target player and move results
    summary_result,  \* summary study: outcome of build_game_summary
    report_row,      \* summary study: the row generate_csv_report built of the summary
    cache_log,       \* cache study, history: the result last written under each key
    cache_read,      \* cache study: the last batch read and what it returned
    engine_call      \* engine study: the analyze_fens_batch call in progress or ended

pipeline_vars ==
    << cache, engine_up, engine_closed, shutdown_event, stats, params, pc, input, game, prov,
       progress, outfile, run_end, outcome, prev >>
classifier_vars == << move_input, class_result, cstep >>
score_vars == << line_input, score_result >>
summary_vars == << summary_input, summary_result, report_row >>
cache_vars == << cache_log, cache_read >>
engine_vars == << engine_call >>
study_vars == << classifier_vars, score_vars, summary_vars, cache_vars, engine_vars >>
vars == << pipeline_vars, study_vars >>

ZeroStats ==
    [ games_read |-> 0, games_analyzed |-> 0, games_with_errors |-> 0,
      fen_cache_hits |-> 0, fens_analyzed_by_engine |-> 0 ]

NoFrame ==
    [ required_fens |-> {}, cached_analyses |-> <<>>, fens_to_analyze |-> <<>>,
      done |-> 0, newly_analyzed |-> <<>>, all_analyses |-> <<>>,
      cache_hits |-> 0, engine_runs |-> 0, engine_called |-> FALSE,
      written |-> <<>>, returned |-> FALSE, signal_in_batch |-> FALSE,
      malformed |-> {} ]

NoMove ==
    [ move_data |-> [ actual_move_obj |-> "m1", board_before_move |-> BoardOf(1),
                      board_after_move |-> BoardOf(2), fen_before_move |-> 1,
                      fen_after_move |-> 2 ],
      analyses |-> <<>>, multipv |-> 2 ]

Pending == [kind |-> "pending", exc |-> "", value |-> None]

\* the studies of the pure functions at rest
NoLine == [line |-> None, perspective |-> WHITE]
ScoreIdle == line_input = NoLine /\ score_result = None
NoSummaryInput ==
    [ white |-> "", black |-> "", first_turn |-> WHITE, target_player |-> None,
      move_results |-> <<>> ]
SummaryIdle == summary_input = NoSummaryInput /\ summary_result = Pending /\ report_row = Pending
ClassifierIdle == move_input = NoMove /\ class_result = Pending /\ cstep = "input"
NoRead == [called |-> FALSE, fens |-> {}, tuple |-> <<>>, result |-> <<>>]
CacheStudyIdle == cache_log = <<>> /\ cache_read = NoRead
NoCall ==
    [ phase |-> "none", exc |-> "", fen_list |-> <<>>, done |-> 0, results |-> <<>>,
      reinit |-> FALSE, after_fault |-> FALSE, after_close |-> FALSE ]
EngineStudyIdle == engine_call = NoCall

NoPrev == [game |-> <<>>, ok |-> FALSE, sent |-> {}, no_eval |-> {}, evaluated |-> {}]

\* the state when run enters its loop: AnalysisPipeline.__init__ and the
\* head of run (pipeline.py), over the cache file earlier runs left
PipelineInit ==
    /\ cache \in { PriorTable(t) : t \in PriorTables }
    /\ engine_up = TRUE
    /\ engine_closed = FALSE
    /\ shutdown_event = FALSE
    /\ stats = ZeroStats
    /\ params \in Params
    /\ pc = "loop"
    /\ input \in 0..MaxGames
    /\ game = <<>>
    /\ prov = NoFrame
    /\ progress = [total |-> 0, n |-> 0]
    /\ outfile = <<>>
    /\ run_end = ""
    /\ outcome = ""
    /\ prev = NoPrev

Init ==
    /\ PipelineInit
    /\ ClassifierIdle
    /\ ScoreIdle
    /\ SummaryIdle
    /\ CacheStudyIdle
    /\ EngineStudyIdle

\* what makes _initialize_engine fail: nothing, _validate_stockfish_path, or
\* _create_and_verify_engine_instance
InitFaults == {"", "path", "create"}

(***************************************************************************)
(* stockfish_controller.py: _ensure_engine_ready with is_ready and         *)
(* _initialize_engine.  up: the controller holds a handle; responsive: the *)
(* handle answers is_fen_valid.  Gives the exception raised, if any, the   *)
(* handle afterwards and whether _initialize_engine ran.                   *)
(***************************************************************************)
\* a controller that re-initializes whether it was closed or not
ensure_engine_ready_reopening(up, closed, responsive, init_fault) ==
    IF up /\ responsive THEN [exc |-> "", up |-> TRUE, reinit |-> FALSE]
    ELSE IF init_fault = "" THEN [exc |-> "", up |-> TRUE, reinit |-> TRUE]
    ELSE IF init_fault = "path" THEN [exc |-> "StockfishError", up |-> up, reinit |-> TRUE]
    ELSE [exc |-> "StockfishError", up |-> FALSE, reinit |-> TRUE]

ensure_engine_ready(up, closed, responsive, init_fault) ==
    IF closed THEN [exc |-> "StockfishError", up |-> up, reinit |-> FALSE]
    ELSE IF up /\ responsive THEN [exc |-> "", up |-> TRUE, reinit |-> FALSE]
    ELSE IF init_fault = "" THEN [exc |-> "", up |-> TRUE, reinit |-> TRUE]
    ELSE IF init_fault = "path" THEN [exc |-> "StockfishError", up |-> up, reinit |-> TRUE]
    ELSE [exc |-> "StockfishError", up |-> FALSE, reinit |-> TRUE]

\* stockfish_controller.py: close, as the with statement of run calls it
ControllerClose == engine_up' = FALSE /\ engine_closed' = TRUE

\* pipeline.py: TqdmProgressReporter over tqdm: reset(total) and update(n)
progress_reset(total) == [total |-> total, n |-> 0]

\* a sink that advances by one per call, whatever the count it is given
progress_update_once(p, n) == [p EXCEPT !.n = @ + 1]

progress_update(p, n) == [p EXCEPT !.n = @ + n]

\* utils/signal_manager.py: the handler sets the event on the first signal
\* and exits the process on the second (history: signal_in_batch records
\* that the first signal arrived while the engine batch was in progress)
Signal ==
    /\ pc # "idle"
    /\ IF ~shutdown_event
       THEN /\ shutdown_event' = TRUE
            /\ prov' = [prov EXCEPT !.signal_in_batch = (pc = "engine")]
            /\ UNCHANGED << pc, run_end, engine_up, engine_closed >>
       ELSE /\ pc' = "idle"
            /\ prov' = NoFrame
            /\ run_end' = "forced"
            /\ ControllerClose
            /\ UNCHANGED shutdown_event
    /\ UNCHANGED << cache, stats, params, input, game, progress,
                    outfile, outcome, prev, study_vars >>

\* history: what the resolution of the current game did (ok: the provider
\* returned normally; sent: the positions handed to the engine; no_eval: those
\* the engine did not evaluate)
Summary(ok) ==
    [ game |-> game, ok |-> ok,
      sent |-> { prov.fens_to_analyze[i] : i \in 1..Len(prov.fens_to_analyze) },
      no_eval |-> { f \in DOMAIN prov.newly_analyzed : prov.newly_analyzed[f] = None },
      evaluated |-> { f \in DOMAIN prov.newly_analyzed : prov.newly_analyzed[f] # None } ]

\* a loop that reads on without looking at the event
NextGame_unchecked ==
    /\ pc = "loop"
    /\ IF input = 0
       THEN /\ pc' = "idle"
            /\ run_end' = IF shutdown_event THEN "cancelled" ELSE "eof"
            /\ ControllerClose
            /\ UNCHANGED << input, game, stats >>
       ELSE /\ game' \in Games
            /\ input' = input - 1
            /\ stats' = [stats EXCEPT !.games_read = @ + 1]
            /\ pc' = "resolve"
            /\ UNCHANGED << run_end, engine_up, engine_closed >>
    /\ UNCHANGED << cache, shutdown_event, params, prov, progress, outfile,
                    outcome, prev, study_vars >>

\* pgn_handler.py: stream_games, and the head of the loop of run
NextGame ==
    /\ pc = "loop"
    /\ IF shutdown_event \/ input = 0
       THEN /\ pc' = "idle"
            /\ run_end' = IF shutdown_event THEN "cancelled" ELSE "eof"
            /\ ControllerClose
            /\ UNCHANGED << input, game, stats >>
       ELSE /\ game' \in Games
            /\ input' = input - 1
            /\ stats' = [stats EXCEPT !.games_read = @ + 1]
            /\ pc' = "resolve"
            /\ UNCHANGED << run_end, engine_up, engine_closed >>
    /\ UNCHANGED << cache, shutdown_event, params, prov, progress, outfile,
                    outcome, prev, study_vars >>

\* an except clause that logs the exception and counts nothing
GameFailed_uncounted(st, exc) ==
    /\ stats' = st
    /\ outcome' = exc
    /\ prev' = Summary(exc = "PGNExportError")
    /\ prov' = NoFrame
    /\ pc' = "loop"

(***************************************************************************)
(* The except clause of the loop of run: the game is counted as errored    *)
(* and the loop continues.  st is the statistics reached so far; the frame *)
(* of the provider is gone.                                                *)
(***************************************************************************)
GameFailed(st, exc) ==
    /\ stats' = [st EXCEPT !.games_with_errors = @ + 1]
    /\ outcome' = exc
    /\ prev' = Summary(exc = "PGNExportError")
    /\ prov' = NoFrame
    /\ pc' = "loop"

\* the orders in which a set can be iterated
Orders(S) ==
    { o \in [1..Cardinality(S) -> S] : \A i, j \in DOMAIN o : o[i] = o[j] => i = j }

\* the primary key of a position under the parameters of the provider
ActiveKey(fen) ==
    CacheKey(fen, params.analysis_depth, params.multipv_count,
             params.stockfish_path, params.stockfish_version)

(***************************************************************************)
(* analysis_provider.py: get_analyses_for_game, steps 1 to 3, up to the    *)
(* call of the engine batch (stockfish_controller.py: _ensure_engine_ready)*)
(***************************************************************************)
ResolveFromCache ==
    /\ pc = "resolve"
    /\ LET required_fens == get_required_fens(game)
           started == [NoFrame EXCEPT !.required_fens = required_fens]
       IN
       \E read_fails \in BOOLEAN :
         IF read_fails
         THEN \* CacheReadError
              /\ progress' = progress_reset(Cardinality(required_fens))
              /\ GameFailed(stats, "CacheReadError")
              /\ UNCHANGED engine_up
         ELSE
           LET cached_analyses ==
                   get_cached_analyses_batch(cache, required_fens, params.analysis_depth,
                       params.multipv_count, params.stockfish_path, params.stockfish_version)
               cache_hits == Cardinality(DOMAIN cached_analyses)
               \* history: the rows the read found and could not decode
               malformed == { fen \in required_fens :
                                /\ ActiveKey(fen) \in DOMAIN cache
                                /\ ~json_decodes(cache[ActiveKey(fen)]) }
               misses == { fen \in required_fens : fen \notin DOMAIN cached_analyses }
           IN
           /\ progress' = progress_update(progress_reset(Cardinality(required_fens)), cache_hits)
           /\ \E fens_to_analyze \in Orders(misses) :
                LET frame == [started EXCEPT !.cached_analyses = cached_analyses,
                                             !.all_analyses = cached_analyses,
                                             !.cache_hits = cache_hits,
                                             !.malformed = malformed,
                                             !.fens_to_analyze = fens_to_analyze,
                                             !.engine_runs = Len(fens_to_analyze)]
                IN
                IF fens_to_analyze = <<>>
                THEN /\ prov' = [frame EXCEPT !.returned = TRUE]
                     /\ pc' = "process"
                     /\ UNCHANGED << engine_up, stats, outcome, prev >>
                ELSE \E responsive \in BOOLEAN, init_fault \in InitFaults :
                       LET ready == ensure_engine_ready(engine_up, engine_closed,
                                                        responsive, init_fault)
                       IN  /\ engine_up' = ready.up
                           /\ IF ready.exc = ""
                              THEN /\ prov' = [frame EXCEPT !.engine_called = TRUE]
                                   /\ pc' = "engine"
                                   /\ UNCHANGED << stats, outcome, prev >>
                              ELSE \* StockfishError: re-initialization failed
                                   GameFailed(stats, ready.exc)
    /\ UNCHANGED << cache, engine_closed, shutdown_event, params, input, game, outfile,
                    run_end, study_vars >>

\* a batch that stores each evaluation as soon as it is obtained
AnalyzeNextFen_write_through ==
    /\ pc = "engine"
    /\ prov.done < Len(prov.fens_to_analyze)
    /\ LET fen == prov.fens_to_analyze[prov.done + 1]
           step(result) == [prov EXCEPT !.done = @ + 1,
                                        !.newly_analyzed = (fen :> result) @@ @]
       IN
       \/ \* is_fen_valid(fen) is false
          /\ prov' = step(None)
          /\ pc' = IF prov.done + 1 = Len(prov.fens_to_analyze) THEN "store" ELSE "engine"
          /\ UNCHANGED << cache, engine_up, stats, outcome, prev >>
       \/ \* get_top_moves
          /\ prov' = step(Some(TopMoves(fen)))
          /\ cache' = store_analyses_batch(cache, ActiveKey(fen) :> TopMoves(fen))
          /\ pc' = IF prov.done + 1 = Len(prov.fens_to_analyze) THEN "store" ELSE "engine"
          /\ UNCHANGED << engine_up, stats, outcome, prev >>
       \/ \* StockfishException: StockfishAnalysisError aborts the batch
          /\ engine_up' = FALSE
          /\ GameFailed(stats, "StockfishAnalysisError")
          /\ UNCHANGED cache
    /\ progress' = progress_update(progress, 1)
    /\ UNCHANGED << engine_closed, shutdown_event, params, input, game, outfile,
                    run_end, study_vars >>

(***************************************************************************)
(* stockfish_controller.py: one iteration of the loop of                   *)
(* analyze_fens_batch.  The provider passes no shutdown_event.             *)
(***************************************************************************)
AnalyzeNextFen ==
    /\ pc = "engine"
    /\ prov.done < Len(prov.fens_to_analyze)
    /\ LET fen == prov.fens_to_analyze[prov.done + 1]
           step(result) == [prov EXCEPT !.done = @ + 1,
                                        !.newly_analyzed = (fen :> result) @@ @]
       IN
       \/ \* is_fen_valid(fen) is false
          /\ prov' = step(None)
          /\ pc' = IF prov.done + 1 = Len(prov.fens_to_analyze) THEN "store" ELSE "engine"
          /\ UNCHANGED << engine_up, stats, outcome, prev >>
       \/ \* get_top_moves
          /\ prov' = step(Some(TopMoves(fen)))
          /\ pc' = IF prov.done + 1 = Len(prov.fens_to_analyze) THEN "store" ELSE "engine"
          /\ UNCHANGED << engine_up, stats, outcome, prev >>
       \/ \* StockfishException: StockfishAnalysisError aborts the batch
          /\ engine_up' = FALSE
          /\ GameFailed(stats, "StockfishAnalysisError")
    /\ progress' = progress_update(progress, 1)
    /\ UNCHANGED << cache, engine_closed, shutdown_event, params, input, game, outfile,
                    run_end, study_vars >>

\* CacheKey called with depth and line count in each other's place
entries_to_cache_swapped(newly_analyzed, p) ==
    [ k \in { CacheKey(fen, p.multipv_count, p.analysis_depth,
                       p.stockfish_path, p.stockfish_version) :
              fen \in { f \in DOMAIN newly_analyzed : newly_analyzed[f] # None } }
      |-> Val(newly_analyzed[k.fen]) ]

\* analysis_provider.py, step 5: the entries built from the engine's results
entries_to_cache(newly_analyzed, p) ==
    [ k \in { CacheKey(fen, p.analysis_depth, p.multipv_count,
                       p.stockfish_path, p.stockfish_version) :
              fen \in { f \in DOMAIN newly_analyzed : newly_analyzed[f] # None } }
      |-> Val(newly_analyzed[k.fen]) ]

(***************************************************************************)
(* analysis_provider.py: get_analyses_for_game, after the engine batch:    *)
(* merge, step 5 (db_manager.py: store_analyses_batch) and return          *)
(***************************************************************************)
StoreNewAnalyses ==
    /\ pc = "store"
    /\ LET newly_analyzed == prov.newly_analyzed
           all_analyses == newly_analyzed @@ prov.all_analyses
           entries == entries_to_cache(newly_analyzed, params)
           merged == [prov EXCEPT !.all_analyses = all_analyses]
       IN
       IF DOMAIN entries = {}
       THEN /\ prov' = [merged EXCEPT !.returned = TRUE]
            /\ pc' = "process"
            /\ UNCHANGED << cache, stats, outcome, prev >>
       ELSE \E write_fails \in BOOLEAN :
              IF write_fails
              THEN \* CacheWriteError, after the rollback
                   /\ GameFailed(stats, "CacheWriteError")
                   /\ UNCHANGED cache
              ELSE /\ cache' = store_analyses_batch(cache, entries)
                   /\ prov' = [merged EXCEPT !.written = entries, !.returned = TRUE]
                   /\ pc' = "process"
                   /\ UNCHANGED << stats, outcome, prev >>
    /\ UNCHANGED << engine_up, engine_closed, shutdown_event, params, input, game,
                    progress, outfile, run_end, study_vars >>

(***************************************************************************)
(* game_processor.py: process_game after the provider returned, and the    *)
(* rest of the loop body of run: statistics and export.  An exception      *)
(* that is no StockfishError, CacheError or PGNError leaves the loop.      *)
(***************************************************************************)
classify_game(g, all_analyses, multipv_count) ==
    LET move_data_list == collect_move_data(g)
    IN  [ i \in 1..Len(move_data_list) |->
            classify_move(build_move_analysis_context(move_data_list[i], all_analyses,
                                                      multipv_count)) ]

ProcessGame ==
    /\ pc = "process"
    /\ LET results == classify_game(game, prov.all_analyses, params.multipv_count)
           no_moves == Len(results) = 0
           cache_hits == IF no_moves THEN 0 ELSE prov.cache_hits
           engine_runs == IF no_moves THEN 0 ELSE prov.engine_runs
           counted == [stats EXCEPT !.fen_cache_hits = @ + cache_hits,
                                    !.fens_analyzed_by_engine = @ + engine_runs]
       IN
       IF \E i \in 1..Len(results) : results[i].kind = "raise"
       THEN /\ pc' = "idle"
            /\ run_end' = "fatal"
            /\ outcome' = "TypeError"
            /\ prev' = Summary(TRUE)
            /\ prov' = NoFrame
            /\ ControllerClose
            /\ UNCHANGED << stats, outfile >>
       ELSE \E export_fails \in BOOLEAN :
              IF export_fails
              THEN \* PGNExportError
                   /\ GameFailed(counted, "PGNExportError")
                   /\ UNCHANGED << outfile, run_end, engine_up, engine_closed >>
              ELSE /\ outfile' = Append(outfile, game)
                   /\ stats' = [counted EXCEPT !.games_analyzed = @ + 1]
                   /\ outcome' = "analyzed"
                   /\ prev' = Summary(TRUE)
                   /\ prov' = NoFrame
                   /\ pc' = "loop"
                   /\ UNCHANGED << run_end, engine_up, engine_closed >>
    /\ UNCHANGED << cache, shutdown_event, params, input, game,
                    progress, study_vars >>

Next ==
    \/ Signal
    \/ NextGame
    \/ ResolveFromCache
    \/ AnalyzeNextFen
    \/ StoreNewAnalyses
    \/ ProcessGame

Spec == Init /\ [][Next]_vars

(***************************************************************************)
(* The classifier on its own: one move of a game with the analyses of the  *)
(* positions before and after it, as process_game hands them to            *)
(* build_move_analysis_context and classify_move.  Scores are drawn from   *)
(* the mover's point of view and written into the lines from White's.      *)
(***************************************************************************)
Level == Pieces(2, 1, 2, 1, 1, 1)
NoPiece == Pieces(0, 0, 0, 0, 0, 0)
Minus(cnt, lost) ==
    Pieces(cnt.P - lost.P, cnt.N - lost.N, cnt.B - lost.B,
           cnt.R - lost.R, cnt.Q - lost.Q, cnt.K - lost.K)

\* what the mover and the opponent lose by the move: nothing, a bishop for a
\* pawn (2.2), a queen for two bishops (2.6), a knight for nothing (3.0)
Exchanges ==
    { [mover |-> NoPiece, other |-> NoPiece],
      [mover |-> Pieces(0, 0, 1, 0, 0, 0), other |-> Pieces(1, 0, 0, 0, 0, 0)],
      [mover |-> Pieces(0, 0, 0, 0, 1, 0), other |-> Pieces(0, 0, 2, 0, 0, 0)],
      [mover |-> Pieces(0, 1, 0, 0, 0, 0), other |-> NoPiece] }

BoardAfter(color, x) ==
    [ turn |-> ~color,
      w |-> Minus(Level, IF color = WHITE THEN x.mover ELSE x.other),
      b |-> Minus(Level, IF color = WHITE THEN x.other ELSE x.mover) ]

Sign(color) == IF color = WHITE THEN 1 ELSE -1

Cp(n) == [mate |-> FALSE, n |-> n]
MateIn(n) == [mate |-> TRUE, n |-> n]
LineFor(color, mv, sc) ==
    IF sc.mate THEN MateLine(mv, Sign(color) * sc.n) ELSE CpLine(mv, Sign(color) * sc.n)

BestScores == { Cp(0), Cp(300), Cp(350), Cp(351), Cp(1200), MateIn(3), MateIn(-2), MateIn(0) }
SecondScores == { Cp(150), Cp(180), Cp(181), Cp(280), MateIn(-2) }
PlayedScores ==
    { Cp(340), Cp(310), Cp(300), Cp(295), Cp(294), Cp(285), Cp(284), Cp(280), Cp(279),
      Cp(260), Cp(259), Cp(230), Cp(229), Cp(210), Cp(209), Cp(120), Cp(119),
      Cp(0), Cp(-1), Cp(-50), Cp(1100), Cp(-1500), MateIn(2), MateIn(-3) }

\* the analysis of the position before the move: one or two ranked lines,
\* an empty list, or None
LinesBefore(color) ==
    { Some(<< LineFor(color, mv, sc) >>) : mv \in {"m1", "m2"}, sc \in BestScores }
    \cup { Some(<< LineFor(color, mv, sc), LineFor(color, "m3", sc2) >>) :
             mv \in {"m1", "m2"}, sc \in BestScores, sc2 \in SecondScores }
    \cup { Some(<<>>), None }

\* the analysis of the position after the move
LinesAfter(color) ==
    { Some(<< LineFor(color, "m9", sc) >>) : sc \in PlayedScores }
    \cup { Some(<< [Move |-> "m9", Centipawn |-> BadField, Mate |-> NoField] >>), None }

\* the analyses mapping: a position the provider did not return has no key
AnalysesOf(before, after, has_before, has_after) ==
    [ fen \in (IF has_before THEN {1} ELSE {}) \cup (IF has_after THEN {2} ELSE {}) |->
        IF fen = 1 THEN before ELSE after ]

ContextOf(mi) == build_move_analysis_context(mi.move_data, mi.analyses, mi.multipv)

ClassifierInit ==
    /\ \E color \in {WHITE, BLACK}, mv \in {"m1", "m2", "m3"}, x \in Exchanges, n \in {1, 2},
          has_before \in BOOLEAN, has_after \in BOOLEAN :
         \E before \in LinesBefore(color), after \in LinesAfter(color) :
           /\ (~has_before => before = None)
           /\ (~has_after => after = None)
           /\ move_input =
                [ move_data |-> [ actual_move_obj |-> mv,
                                  board_before_move |-> [turn |-> color, w |-> Level, b |-> Level],
                                  board_after_move |-> BoardAfter(color, x),
                                  fen_before_move |-> 1,
                                  fen_after_move |-> 2 ],
                  analyses |-> AnalysesOf(before, after, has_before, has_after),
                  multipv |-> n ]
    /\ class_result = Pending
    /\ cstep = "input"

\* game_processor.py: the two calls of the loop over the moves
ClassifyMove ==
    /\ cstep = "input"
    /\ class_result' = classify_move(ContextOf(move_input))
    /\ cstep' = "classified"
    /\ UNCHANGED << move_input, pipeline_vars, score_vars, summary_vars, cache_vars, engine_vars >>

\* the loop goes on to the next move; the result of this one is kept in
\* all_classification_results
KeepResult ==
    /\ cstep = "classified"
    /\ class_result.kind = "return"
    /\ cstep' = "kept"
    /\ UNCHANGED << move_input, class_result, pipeline_vars, score_vars, summary_vars,
                    cache_vars, engine_vars >>

\* the pipeline at rest inside process_game
PipelineIdle ==
    /\ cache = <<>>
    /\ engine_up = TRUE
    /\ engine_closed = FALSE
    /\ shutdown_event = FALSE
    /\ stats = ZeroStats
    /\ params \in { p \in Params : p.analysis_depth = 18 }
    /\ pc = "process"
    /\ input = 0
    /\ game = <<>>
    /\ prov = NoFrame
    /\ progress = [total |-> 0, n |-> 0]
    /\ outfile = <<>>
    /\ run_end = ""
    /\ outcome = ""
    /\ prev = NoPrev

InitClassifier ==
    /\ ClassifierInit
    /\ PipelineIdle
    /\ ScoreIdle
    /\ SummaryIdle
    /\ CacheStudyIdle
    /\ EngineStudyIdle

NextClassifier == ClassifyMove \/ KeepResult

SpecClassifier == InitClassifier /\ [][NextClassifier]_vars

(***************************************************************************)
(* Properties of the provider and of the run loop (Spec)                   *)
(***************************************************************************)
\* the positions handed to the engine batch of the current game
Sent == { prov.fens_to_analyze[i] : i \in 1..Len(prov.fens_to_analyze) }

\* the table holds a decodable record of the position under the active key
Cached(fen) == ActiveKey(fen) \in DOMAIN cache /\ json_decodes(cache[ActiveKey(fen)])

\* the cache has been read for the current game and nothing written yet
CacheWasRead == pc \in {"engine", "store"} \/ (pc = "process" /\ DOMAIN prov.written = {})

\* C1: cache-first scheduling.  Once the cache has been read for a game, the
\* positions handed to the engine are exactly the required positions with no
\* decodable record under the active key; no position of the cache response
\* is among them; the response holds only required positions stored under the
\* active key; and the engine batch is called only if there is a miss.
C1_CacheFirst ==
    /\ CacheWasRead =>
         /\ Sent = { fen \in get_required_fens(game) : ~Cached(fen) }
         /\ DOMAIN prov.cached_analyses = { fen \in get_required_fens(game) : Cached(fen) }
    /\ pc \in {"engine", "store", "process"} =>
         /\ Sent \cap DOMAIN prov.cached_analyses = {}
         /\ DOMAIN prov.newly_analyzed \subseteq Sent
         /\ prov.engine_called <=> Sent # {}

\* a game with a cache hit and a miss, the engine batch under way
C1_Witness ==
    /\ pc = "engine"
    /\ prov.cache_hits >= 1
    /\ Sent # {}
    /\ \E k \in DOMAIN cache : k.analysis_depth # params.analysis_depth

\* C2: store-on-success.  When get_analyses_for_game has returned, the entries
\* of its one batch write are exactly the cache misses the engine evaluated,
\* each under the active key with the evaluation returned; no cache hit and no
\* absent result is among them; and every required position with a usable
\* evaluation is in the returned mapping and, with that evaluation, in the table.
C2_StoreOnSuccess ==
    (pc = "process" /\ prov.returned) =>
      LET evaluated == { fen \in Sent : prov.newly_analyzed[fen] # None }
      IN  /\ DOMAIN prov.written = { ActiveKey(fen) : fen \in evaluated }
          /\ \A fen \in evaluated :
               /\ prov.written[ActiveKey(fen)] = Val(prov.newly_analyzed[fen])
               /\ fen \notin DOMAIN prov.cached_analyses
          /\ \A fen \in get_required_fens(game) :
               /\ fen \in DOMAIN prov.all_analyses
               /\ prov.all_analyses[fen] # None =>
                    /\ Cached(fen)
                    /\ json_loads(cache[ActiveKey(fen)]) = Val(prov.all_analyses[fen])

\* the provider returned after a batch in which one position was evaluated and
\* stored and another was invalid
C2_Witness ==
    /\ pc = "process"
    /\ prov.returned
    /\ DOMAIN prov.written # {}
    /\ \E fen \in Sent : prov.newly_analyzed[fen] = None

\* C3: a position that failed the engine's validation has no key in the
\* mapping get_analyses_for_game returns.
C3_InvalidPositionHasNoKey ==
    (pc = "process" /\ prov.returned) =>
      \A fen \in Sent : prov.newly_analyzed[fen] = None => fen \notin DOMAIN prov.all_analyses

\* C4 as claimed: a game processed again right after a processing of it that
\* completed without a fault makes no engine invocation and finds every
\* required position in the cache.
C4_Idempotent ==
    (pc \in {"engine", "store", "process"} /\ prev.game = game /\ prev.ok) =>
      /\ ~prov.engine_called
      /\ prov.cache_hits = Cardinality(get_required_fens(game))

\* C4 as amended: the same when, in the first processing, the engine returned
\* an evaluation for every position it was sent.
C4_IdempotentWhenAllEvaluated ==
    (pc \in {"engine", "store", "process"} /\ prev.game = game /\ prev.ok
       /\ prev.no_eval = {}) =>
      /\ ~prov.engine_called
      /\ prov.cache_hits = Cardinality(get_required_fens(game))

\* the second processing of a game whose first processing used the engine
C4_Witness ==
    /\ pc = "process"
    /\ prev.game = game
    /\ prev.ok
    /\ prev.no_eval = {}
    /\ Cardinality(prev.sent) >= 2
    /\ ~prov.engine_called

ResolutionFaults ==
    {"CacheReadError", "StockfishError", "StockfishAnalysisError", "CacheWriteError"}

\* C5: a resolution that ends without returning, the process not being forced
\* to exit, ends in the handler of the run loop: the fault is seen there, the
\* game is counted as errored and not as analyzed, nothing is exported, and
\* the loop goes on with the games still to be read; a run stops before the
\* end of the input only when cancelled, forced to exit, or on an exception
\* that is no resolution fault.
C5_FaultsContained ==
    /\ [][ (/\ pc \in {"resolve", "engine", "store"}
            /\ pc' \notin {"resolve", "engine", "store", "process"}
            /\ run_end' # "forced")
           => /\ pc' = "loop"
              /\ outcome' \in ResolutionFaults
              /\ stats'.games_with_errors = stats.games_with_errors + 1
              /\ stats'.games_analyzed = stats.games_analyzed
              /\ stats'.games_read = stats.games_read
              /\ outfile' = outfile
              /\ input' = input
              /\ run_end' = run_end ]_vars
    /\ [](pc = "idle" =>
            /\ run_end = "fatal" => outcome \notin ResolutionFaults
            /\ input # 0 => run_end \in {"cancelled", "forced", "fatal"})
    /\ [](pc = "loop" /\ ~shutdown_event /\ input # 0 => ENABLED NextGame)

\* the game after one whose resolution failed has been resolved
C5_Witness ==
    /\ pc = "process"
    /\ prov.returned
    /\ ~prev.ok
    /\ prev.game # <<>>
    /\ stats.games_with_errors = 1
    /\ stats.games_read = 2

(***************************************************************************)
(* Properties of the classifier (SpecClassifier)                           *)
(***************************************************************************)
\* the context of the move under study and the outcome of its classification
Ctx == ContextOf(move_input)
Classified == cstep # "input"
Returned == class_result.kind = "return"
Result == Val(class_result.value)

\* stage 1 did not fire: the pre-move best and the played-move evaluation exist
GuardPassed(c) == c.eval_best_move # None /\ c.eval_player_move # None

RawCpl(c) ==
    cap_score(c.eval_best_move, c.is_mate_best_move)
    - cap_score(c.eval_player_move, c.is_mate_player_move)

MetricsCpl(c) == Min(ACPL_MOVE_CPL_CAP_CP, Max(0, RawCpl(c)))

PlayedIsRank(c, i) == Len(c.engine_top_lines) >= i /\ c.engine_top_lines[i].Move = c.player_move_uci
IsTopChoice(c) == PlayedIsRank(c, 1)
IsTopNChoice(c) == \E i \in 1..Len(c.engine_top_lines) : PlayedIsRank(c, i)

\* the Brilliant conditions
BrilliantConds(c) ==
    /\ c.eval_before_move # None
    /\ c.eval_player_move # None
    /\ RawCpl(c) <= c.brilliant_criteria.max_cpl
    /\ ~(c.is_mate_before_move /\ Val(c.eval_before_move) > 0)
    /\ (c.is_mate_before_move
          \/ Val(c.eval_before_move) <= c.brilliant_criteria.max_eval_before_move_cp)
    /\ Val(c.eval_before_move) - Val(c.eval_player_move)
         <= c.brilliant_criteria.eval_drop_leniency_cp
    /\ get_material_diff(c.board_before_move, c.player_color)
         - get_material_diff(c.board_after_move, c.player_color)
         >= c.brilliant_criteria.min_sacrifice_net_material_pawns

\* the Great conditions
GreatConds(c) ==
    /\ IsTopChoice(c)
    /\ c.engine_multipv >= 2
    /\ c.eval_best_move # None
    /\ c.eval_second_best_move # None
    /\ ~c.is_mate_best_move
    /\ ~c.is_mate_second_best_move
    /\ Val(c.eval_best_move) - Val(c.eval_second_best_move)
         >= c.great_criteria.min_uniqueness_gain_cp

\* C6: classify_move returns a ClassificationResult for every context; it
\* never raises.
C6_ClassifierTotal == Classified => Returned

\* C7: for a context in which all Brilliant conditions hold, classify_move
\* returns a result labelled Brilliant with metrics-CPL 0, the computed raw
\* CPL, is_brilliant true and the top-choice flags as computed from the lines.
C7_BrilliantResult ==
    (Classified /\ BrilliantConds(Ctx)) =>
      /\ Returned
      /\ Result.classification_text.name = "Brilliant"
      /\ Result.cpl = 0
      /\ Result.raw_cpl = RawCpl(Ctx)
      /\ Result.is_brilliant
      /\ Result.is_engine_top_choice = IsTopChoice(Ctx)
      /\ Result.is_engine_top_n_choice = IsTopNChoice(Ctx)

\* C8: for a context that satisfies the Brilliant and the Great conditions at
\* once, classify_move returns the Brilliant classification.
C8_BrilliantBeforeGreat ==
    (Classified /\ BrilliantConds(Ctx) /\ GreatConds(Ctx)) =>
      /\ Returned
      /\ Result.is_brilliant
      /\ ~Result.is_great

ReturnedGreat == Returned /\ Result.is_great

GreatFields ==
    /\ Result.classification_text.name = "Great Move !"
    /\ Result.cpl = 0
    /\ Result.raw_cpl = 0
    /\ ~Result.is_brilliant
    /\ Result.is_engine_top_choice
    /\ Result.is_engine_top_n_choice

\* C9 as claimed: classify_move returns a Great result exactly when the
\* Brilliant stage did not match and the Great conditions hold, and the result
\* then has metrics-CPL 0, raw CPL 0, is_great and both top-choice flags.
C9_GreatExactly ==
    Classified =>
      /\ ReturnedGreat <=> (~BrilliantConds(Ctx) /\ GreatConds(Ctx))
      /\ ReturnedGreat => GreatFields

\* C9 as amended: the same, when moreover the missing-data guard did not fire
\* (the pre-move best and the played-move evaluation both exist).
C9_GreatExactlyPastGuard ==
    Classified =>
      /\ ReturnedGreat <=> (GuardPassed(Ctx) /\ ~BrilliantConds(Ctx) /\ GreatConds(Ctx))
      /\ ReturnedGreat => GreatFields

\* a Great result for a gap of exactly the minimum, the move a sacrifice that
\* misses Brilliant by its CPL
C9_Witness ==
    /\ Classified
    /\ ReturnedGreat
    /\ Val(Ctx.eval_best_move) - Val(Ctx.eval_second_best_move)
         = Ctx.great_criteria.min_uniqueness_gain_cp
    /\ RawCpl(Ctx) > Ctx.brilliant_criteria.max_cpl
    /\ is_significant_piece_sacrifice(Ctx)

\* the tier table of the claim
TierOf(cpl) ==
    IF cpl <= 5 THEN "Best"
    ELSE IF cpl <= 40 THEN "Good"
    ELSE IF cpl <= 70 THEN "OK"
    ELSE IF cpl <= 90 THEN "Dubious"
    ELSE IF cpl <= 180 THEN "Inaccuracy"
    ELSE IF cpl <= 300 THEN "Mistake"
    ELSE "Blunder"

\* the tier a label names: the text before its decoration
LabelTier(text) == IF text.name = "Blunder !!!" THEN "Blunder" ELSE text.name

\* C10: when the guard did not fire and neither special stage matches, the
\* label is that of the first tier, in the order Best<=5, Good<=40, OK<=70,
\* Dubious<=90, Inaccuracy<=180, Mistake<=300, whose bound is >= metrics-CPL,
\* and Blunder above every bound; a CPL equal to a bound falls in that tier.
C10_StandardTier ==
    (Classified /\ GuardPassed(Ctx) /\ ~BrilliantConds(Ctx) /\ ~GreatConds(Ctx)) =>
      /\ Returned
      /\ Result.cpl = MetricsCpl(Ctx)
      /\ LabelTier(Result.classification_text) = TierOf(MetricsCpl(Ctx))
      /\ ~Result.is_brilliant
      /\ ~Result.is_great

\* a standard result whose metrics-CPL is the upper bound of its tier
C10_Witness ==
    /\ Classified
    /\ Returned
    /\ ~Result.is_great
    /\ Result.cpl = 180
    /\ Result.classification_text.name = "Inaccuracy"

\* the cap of the claim: a non-mate score clamped to [-1000, 1000], a mate
\* score as it is
Capped(score, is_mate) ==
    IF is_mate THEN score
    ELSE IF score > 1000 THEN 1000
    ELSE IF score < -1000 THEN -1000
    ELSE score

ClampedCpl(raw) == IF raw < 0 THEN 0 ELSE IF raw > 1000 THEN 1000 ELSE raw

\* the standard stage decides: the guard passed and no special stage matched
StandardStage(c) == GuardPassed(c) /\ ~BrilliantConds(c) /\ ~GreatConds(c)

\* C11: in every result of the standard stage raw_cpl is cap(pre-move best) -
\* cap(played), cap clamping a non-mate score to [-1000, 1000] and leaving a
\* mate score as it is, and cpl is raw_cpl clamped into [0, 1000]; in every
\* result of any stage 0 <= cpl <= 1000.
C11_CplClamping ==
    /\ (Classified /\ StandardStage(Ctx)) =>
         /\ Returned
         /\ Result.raw_cpl = Capped(Val(Ctx.eval_best_move), Ctx.is_mate_best_move)
                             - Capped(Val(Ctx.eval_player_move), Ctx.is_mate_player_move)
         /\ Result.cpl = ClampedCpl(Result.raw_cpl)
    /\ (Classified /\ Returned) => (0 <= Result.cpl /\ Result.cpl <= 1000)

\* a standard result with a negative raw CPL, the pre-move evaluation above
\* the cap
C11_Witness ==
    /\ Classified
    /\ StandardStage(Ctx)
    /\ Returned
    /\ Result.raw_cpl < 0
    /\ Result.cpl = 0
    /\ ~Ctx.is_mate_player_move
    /\ Val(Ctx.eval_player_move) > 1000

\* C12: when the pre-move best evaluation or the played move's evaluation is
\* absent, classify_move returns the unavailable classification with cpl 0,
\* raw_cpl 0, is_brilliant and is_great false: no later stage decides and no 0
\* stands in for the missing evaluation.
C12_MissingDataGuard ==
    (Classified /\ ~GuardPassed(Ctx)) =>
      /\ Returned
      /\ Result.classification_text.name = "Unavailable"
      /\ Result.cpl = 0
      /\ Result.raw_cpl = 0
      /\ ~Result.is_brilliant
      /\ ~Result.is_great

\* the played move's evaluation is absent where a 0 in its place would give a
\* CPL of 300
C12_Witness ==
    /\ Classified
    /\ Returned
    /\ Ctx.eval_player_move = None
    /\ Ctx.eval_best_move = Some(300)
    /\ ~GreatConds(Ctx)
    /\ Result.classification_text.name = "Unavailable"

\* C13: on every returned result is_engine_top_choice is true exactly when the
\* played move is the move of the rank-0 line, and is_engine_top_n_choice
\* exactly when it is the move of some ranked line.
C13_EngineMatchFlags ==
    (Classified /\ Returned) =>
      /\ Result.is_engine_top_choice <=> IsTopChoice(Ctx)
      /\ Result.is_engine_top_n_choice <=> IsTopNChoice(Ctx)

(***************************************************************************)
(* The score normalizer on its own: get_score_from_line on one line, absent*)
(* or with each of its two fields missing, malformed or numeric, for       *)
(* either perspective.                                                     *)
(***************************************************************************)
CpValues == {-1500, -50, 0, 125}
MateValues == {-2, 0, 3}

ScoreFields(values) == {NoField, BadField} \cup { Num(n) : n \in values }

ScoreLines ==
    {None} \cup { Some([Move |-> "m1", Centipawn |-> c, Mate |-> m]) :
                    c \in ScoreFields(CpValues), m \in ScoreFields(MateValues) }

ScoreInit ==
    /\ line_input \in [line : ScoreLines, perspective : {WHITE, BLACK}]
    /\ score_result = None

\* context_builders.py: a call of get_score_from_line
ScoreLine ==
    /\ score_result = None
    /\ score_result' = Some(get_score_from_line(line_input.line, line_input.perspective))
    /\ UNCHANGED << line_input, pipeline_vars, classifier_vars, summary_vars, cache_vars,
                    engine_vars >>

InitScore ==
    /\ ScoreInit
    /\ PipelineIdle
    /\ ClassifierIdle
    /\ SummaryIdle
    /\ CacheStudyIdle
    /\ EngineStudyIdle

NextScore == ScoreLine

SpecScore == InitScore /\ [][NextScore]_vars

(***************************************************************************)
(* Properties of the score normalizer (SpecScore)                          *)
(***************************************************************************)
Scored == score_result # None
Score == Val(score_result)
OtherSideScore == get_score_from_line(line_input.line, ~line_input.perspective)

MateField == Val(line_input.line).Mate
CpField == Val(line_input.line).Centipawn

\* the line is a centipawn line or a mate-in-N line with N # 0
CpOrMateLine ==
    /\ line_input.line # None
    /\ \/ MateField.k = "num" /\ MateField.v # 0
       \/ MateField.k = "none" /\ CpField.k = "num"

\* Optional numbers that are negations of each other
Negations(a, b) == IF a = None THEN b = None ELSE b # None /\ Val(b) = -Val(a)

\* C14: for a centipawn line or a mate-in-N line with N # 0 the results for
\* the two sides have scores that are negations of each other, the same
\* is-mate flag and mate distances that are negations of each other.
C14_SideNegation ==
    (Scored /\ CpOrMateLine) =>
      /\ Score[1] # None
      /\ Negations(Score[1], OtherSideScore[1])
      /\ Score[2] = OtherSideScore[2]
      /\ Negations(Score[3], OtherSideScore[3])
      /\ Score[2] <=> Score[3] # None

\* a mate line scored for Black
C14_Witness ==
    /\ Scored
    /\ CpOrMateLine
    /\ line_input.perspective = BLACK
    /\ Score = << Some(-29997), TRUE, Some(-3) >>

\* C15: for a line whose mate distance is 0, get_score_from_line returns
\* score 0, is-mate false and no mate distance, for either perspective.
C15_MateZeroIsDraw ==
    (Scored /\ line_input.line # None /\ MateField = Num(0)) =>
      Score = << Some(0), FALSE, None >>

\* C16 as claimed: for an absent line, or a line whose mate or centipawn
\* field is non-numeric, the result is (no score, false, no mate distance).
C16_MalformedIsAbsent ==
    (Scored /\ (line_input.line = None \/ MateField.k = "bad" \/ CpField.k = "bad")) =>
      Score = << None, FALSE, None >>

\* C16 as amended: the same for an absent line, a line whose mate field is
\* non-numeric, and a line with no mate field whose centipawn field is
\* missing or non-numeric.
C16_UnparsedIsAbsent ==
    (Scored /\ (\/ line_input.line = None
                \/ MateField.k = "bad"
                \/ MateField.k = "none" /\ CpField.k # "num")) =>
      Score = << None, FALSE, None >>

\* a line with a malformed mate field beside a numeric centipawn field
C16_Witness ==
    /\ Scored
    /\ line_input.line # None
    /\ MateField.k = "bad"
    /\ CpField = Num(125)
    /\ Score = << None, FALSE, None >>

(***************************************************************************)
(* Properties of build_move_analysis_context (SpecClassifier)              *)
(***************************************************************************)
LinesAfterMove == DictGet(move_input.analyses, move_input.move_data.fen_after_move)
LinesBeforeMove == DictGet(move_input.analyses, move_input.move_data.fen_before_move)

\* the rank-0 line of the position after the move is a centipawn line
PlayedLineIsCp ==
    /\ Truthy(LinesAfterMove)
    /\ Val(LinesAfterMove)[1].Mate.k = "none"
    /\ Val(LinesAfterMove)[1].Centipawn.k = "num"

\* C17: eval_player_move is the rank-0 evaluation of the position after the
\* move turned from the replying side's point of view to the mover's, so a
\* line of -50 after a move of White gives +50; eval_best_move and
\* eval_before_move are the same pre-move rank-0 evaluation.
C17_PlayedEvalForMover ==
    /\ Ctx.eval_best_move = Ctx.eval_before_move
    /\ Ctx.is_mate_best_move = Ctx.is_mate_before_move
    /\ Ctx.eval_best_move
         = get_score_from_line(IF Truthy(LinesBeforeMove) THEN Some(Val(LinesBeforeMove)[1])
                               ELSE None, Ctx.player_color)[1]
    /\ PlayedLineIsCp =>
         Ctx.eval_player_move = Some(-Val(LinesAfterMove)[1].Centipawn.v)

(***************************************************************************)
(* Position planning (under Spec).  The provider records the set           *)
(* _get_required_fens returned for the current game in its frame.          *)
(***************************************************************************)
Planned == prov.required_fens # {}

\* the starting position, and the position before and after every move played
PositionsOfGame(g) == {g[1]} \cup UNION { {g[i], g[i + 1]} : i \in 1..(Len(g) - 1) }

MoveDataFens(g) ==
    UNION { {collect_move_data(g)[i].fen_before_move, collect_move_data(g)[i].fen_after_move} :
              i \in 1..(Len(g) - 1) }

\* C18: for every game the set _get_required_fens returns holds the starting
\* position and the position before and after every played move and nothing
\* else, has at most 2 * (number of moves) + 1 elements, and every
\* fen_before_move and fen_after_move of the game's MoveData list is in it.
C18_PositionPlanning ==
    Planned =>
        /\ game[1] \in prov.required_fens
        /\ prov.required_fens = PositionsOfGame(game)
        /\ Cardinality(prov.required_fens) <= 2 * (Len(game) - 1) + 1
        /\ MoveDataFens(game) \subseteq prov.required_fens

(***************************************************************************)
(* context_builders.py: build_game_summary.  A player name is a string;    *)
(* str.lower maps the spellings of one name to one string.  The game is    *)
(* given by its White and Black headers and the side that moves first      *)
(* (White, unless the game starts from a FEN header with Black to move).   *)
(***************************************************************************)
MaxPlies == 6      \* results of one game handed to build_game_summary

lower(name) ==
    CASE name \in {"Ann", "ANN", "ann"} -> "ann"
      [] name \in {"Bob", "BOB", "bob"} -> "bob"
      [] name \in {"Cy", "cy"} -> "cy"
      [] OTHER -> name

\* text.split("(")[0].strip(): the label in front of the bracketed suffix
simplified_name(text) == text.name

\* [r for i, r in enumerate(move_results) if (is_white_targeted and
\*  i % 2 == 0) or (is_black_targeted and i % 2 != 0)], from list index i - 1
RECURSIVE filter_results(_, _, _, _)
filter_results(move_results, i, is_white_targeted, is_black_targeted) ==
    IF i > Len(move_results) THEN <<>>
    ELSE (IF \/ (is_white_targeted /\ (i - 1) % 2 = 0)
             \/ (is_black_targeted /\ (i - 1) % 2 # 0)
          THEN << move_results[i] >> ELSE <<>>)
         \o filter_results(move_results, i + 1, is_white_targeted, is_black_targeted)

\* collections.Counter of a list
Counter(names) ==
    [ n \in { names[k] : k \in DOMAIN names } |->
        Cardinality({ k \in DOMAIN names : names[k] = n }) ]

CountWhere(results, flag) == Cardinality({ k \in DOMAIN results : results[k][flag] })

GameSummary(results, name, color_str, headers) ==
    [ analyzed_player_name |-> name,
      player_color_str |-> color_str,
      player_cpls |-> [ k \in DOMAIN results |-> results[k].cpl ],
      move_classification_counts |->
          Counter([ k \in DOMAIN results |-> simplified_name(results[k].classification_text) ]),
      engine_top1_match_count |-> CountWhere(results, "is_engine_top_choice"),
      engine_topN_match_count |-> CountWhere(results, "is_engine_top_n_choice"),
      pgn_headers |-> headers ]

\* the same with the names compared as they are spelled
build_game_summary_case_sensitive(white_player, black_player, target_player, move_results) ==
    IF target_player = None \/ target_player = Some("") THEN None
    ELSE
    LET is_white_targeted == Val(target_player) = white_player
        is_black_targeted == Val(target_player) = black_player
        player_results == filter_results(move_results, 1, is_white_targeted, is_black_targeted)
    IN  IF ~(is_white_targeted \/ is_black_targeted) THEN None
        ELSE IF player_results = <<>> THEN None
        ELSE Some(GameSummary(player_results,
                              IF is_white_targeted THEN white_player ELSE black_player,
                              IF is_white_targeted THEN "White" ELSE "Black",
                              [White |-> white_player, Black |-> black_player]))

build_game_summary(white_player, black_player, target_player, move_results) ==
    IF target_player = None \/ target_player = Some("") THEN None
    ELSE
    LET is_white_targeted == lower(Val(target_player)) = lower(white_player)
        is_black_targeted == lower(Val(target_player)) = lower(black_player)
        player_results == filter_results(move_results, 1, is_white_targeted, is_black_targeted)
    IN  IF ~(is_white_targeted \/ is_black_targeted) THEN None
        ELSE IF player_results = <<>> THEN None
        ELSE Some(GameSummary(player_results,
                              IF is_white_targeted THEN white_player ELSE black_player,
                              IF is_white_targeted THEN "White" ELSE "Black",
                              [White |-> white_player, Black |-> black_player]))

(***************************************************************************)
(* The game summary on its own: one call of build_game_summary at the end  *)
(* of process_game, over the headers, target and results of a game.        *)
(***************************************************************************)
HeaderNames == {"Ann", "ANN", "Bob", ""}
TargetPlayers == {None} \cup { Some(name) : name \in {"", "ann", "Ann", "bob", "Cy"} }

BestResult == ClassificationResult(Text("Best", "", 0), 0, 0, FALSE, FALSE, TRUE, TRUE)
GoodResult == ClassificationResult(Text("Good", "CPL", 20), 20, 20, FALSE, FALSE, FALSE, TRUE)
BlunderResult == ClassificationResult(Text("Blunder !!!", "CPL", 400), 400, 400, FALSE, FALSE, FALSE, FALSE)

MoveResults == UNION { [1..n -> {BestResult, GoodResult, BlunderResult}] : n \in 0..MaxPlies }

SummaryInit ==
    /\ summary_input \in [ white : HeaderNames, black : HeaderNames,
                           first_turn : {WHITE, BLACK},
                           target_player : TargetPlayers,
                           move_results : MoveResults ]
    /\ summary_result = Pending
    /\ report_row = Pending

\* game_processor.py: process_game, step 3
BuildSummary ==
    /\ summary_result = Pending
    /\ summary_result' = Return(build_game_summary(summary_input.white, summary_input.black,
                                    summary_input.target_player, summary_input.move_results))
    /\ UNCHANGED << summary_input, report_row, pipeline_vars, classifier_vars, score_vars,
                    cache_vars, engine_vars >>

\* the columns of the report that count moves of a class
CountColumns ==
    {"Brilliant", "Great", "Best", "Good", "OK", "Dubious", "Inaccuracy", "Mistake", "Blunder"}

\* the key row_data looks up for a column (the label of a brilliant move is
\* written here as check_for_brilliant writes it)
ColumnKey(column) ==
    CASE column = "Brilliant" -> "Brilliant"
      [] column = "Great" -> "Great Move !"
      [] OTHER -> column

\* counts.get(key, 0)
counts_get(counts, key) == IF key \in DOMAIN counts THEN counts[key] ELSE 0

\* report_generator.py: generate_csv_report, the counts of the row of a summary
row_data(summary) ==
    [ column \in CountColumns \cup {"TotalMoves"} |->
        IF column = "TotalMoves" THEN Len(summary.player_cpls)
        ELSE counts_get(summary.move_classification_counts, ColumnKey(column)) ]

\* pipeline.py: run appends the summary of a game if there is one, and
\* generate_csv_report builds a row of each summary
GenerateRow ==
    /\ summary_result # Pending
    /\ report_row = Pending
    /\ report_row' = Return(IF Val(summary_result.value) = None THEN None
                            ELSE Some(row_data(Val(Val(summary_result.value)))))
    /\ UNCHANGED << summary_input, summary_result, pipeline_vars, classifier_vars,
                    score_vars, cache_vars, engine_vars >>

InitSummary ==
    /\ SummaryInit
    /\ PipelineIdle
    /\ ClassifierIdle
    /\ ScoreIdle
    /\ CacheStudyIdle
    /\ EngineStudyIdle

NextSummary == BuildSummary \/ GenerateRow

SpecSummary == InitSummary /\ [][NextSummary]_vars

(***************************************************************************)
(* Properties of the game summary (SpecSummary)                            *)
(***************************************************************************)
Summarized == summary_result # Pending
SummaryOf == Val(summary_result.value)
Built == Summarized /\ SummaryOf # None

TargetGiven == summary_input.target_player \notin {None, Some("")}
TargetIsWhite == TargetGiven /\ lower(Val(summary_input.target_player)) = lower(summary_input.white)
TargetIsBlack == TargetGiven /\ lower(Val(summary_input.target_player)) = lower(summary_input.black)

\* the results of the plies the side made, in game order: list index 0 is
\* the first mover's
PliesOf(side) ==
    LET r == summary_input.move_results
        own == { k \in 1..Len(r) : ((k - 1) % 2 = 0) = (side = summary_input.first_turn) }
        first == IF side = summary_input.first_turn THEN 1 ELSE 2
    IN  [ j \in 1..Cardinality(own) |-> r[first + 2 * (j - 1)] ]

\* C19: the summary built for a target player holds, in game order, exactly
\* the results of the plies that player made (the even-indexed plies for the
\* side moving first, the odd-indexed ones for the other side) in
\* player_cpls, the label counts and the top-1 and top-N match counts.
C19_SummaryOfOwnPlies ==
    (Built /\ ~(TargetIsWhite /\ TargetIsBlack)) =>
        LET own == PliesOf(IF TargetIsWhite THEN WHITE ELSE BLACK)
        IN  /\ SummaryOf[1].player_cpls = [ k \in DOMAIN own |-> own[k].cpl ]
            /\ SummaryOf[1].move_classification_counts =
                   Counter([ k \in DOMAIN own |-> simplified_name(own[k].classification_text) ])
            /\ SummaryOf[1].engine_top1_match_count = CountWhere(own, "is_engine_top_choice")
            /\ SummaryOf[1].engine_topN_match_count = CountWhere(own, "is_engine_top_n_choice")

\* the call with the target spelled another way
SameNameTargets ==
    { t \in TargetPlayers : t # None /\ t # Some("")
                            /\ lower(Val(t)) = lower(Val(summary_input.target_player)) }

\* C20: build_game_summary returns no summary when no target player is given
\* or when the target matches neither the White nor the Black header name
\* compared without regard to letter case, whatever the move results; and
\* the spelling of the target's letters does not change what is returned.
C20_NoSummaryWithoutMatch ==
    Summarized =>
        /\ (~TargetGiven \/ ~(TargetIsWhite \/ TargetIsBlack)) => SummaryOf = None
        /\ TargetGiven =>
             \A t \in SameNameTargets :
                 build_game_summary(summary_input.white, summary_input.black, t,
                                    summary_input.move_results) = SummaryOf

\* six results, a target that is neither player: no summary
C20_Witness ==
    /\ Summarized
    /\ summary_input.target_player = Some("Cy")
    /\ summary_input.white = "Ann"
    /\ summary_input.black = "Bob"
    /\ Len(summary_input.move_results) = MaxPlies
    /\ SummaryOf = None

Reported == report_row # Pending
RowOf == Val(report_row.value)

\* the tier classify_move put a move in, read back from the text it wrote
ResultTier(result) ==
    IF result.classification_text.name = "Great Move !" THEN "Great"
    ELSE LabelTier(result.classification_text)

\* sum(counts.values())
RECURSIVE SumCounts(_)
SumCounts(counts) ==
    IF DOMAIN counts = {} THEN 0
    ELSE LET n == CHOOSE n \in DOMAIN counts : TRUE
         IN  counts[n] + SumCounts([ m \in DOMAIN counts \ {n} |-> counts[m] ])

\* C29: for the summary of a game that White begins, the counts keyed by
\* simplified label sum to the number of the target player's moves, and each
\* count column of the report row (Blunder, Brilliant, Great, Best, Good, OK,
\* Dubious, Inaccuracy, Mistake) holds the number of that player's moves that
\* classify_move put in that tier.
C29_CountsReachReport ==
    (Reported /\ RowOf # None /\ summary_input.first_turn = WHITE
              /\ ~(TargetIsWhite /\ TargetIsBlack)) =>
        LET own == PliesOf(IF TargetIsWhite THEN WHITE ELSE BLACK)
        IN  /\ SumCounts(SummaryOf[1].move_classification_counts) = Len(own)
            /\ RowOf[1]["TotalMoves"] = Len(own)
            /\ \A column \in CountColumns :
                 RowOf[1][column] = Cardinality({ k \in DOMAIN own : ResultTier(own[k]) = column })

(***************************************************************************)
(* Cancellation, progress and totals of a run (under Spec)                 *)
(***************************************************************************)
\* the engine batch of the current game is between two positions
InBatch == pc = "engine"

\* C21: when the cancellation signal is set while a game's engine batch is
\* in progress, the signal is seen before the next position is submitted: no
\* further position of the batch is evaluated, and the batch goes with the
\* evaluations it has to the write-back and the return of the provider.
C21_CancelStopsBatch ==
    [][ (prov.signal_in_batch /\ InBatch /\ run_end' # "forced") =>
            /\ pc' = "store"
            /\ prov'.done = prov.done
            /\ prov'.newly_analyzed = prov.newly_analyzed
            /\ progress' = progress ]_vars

\* the provider is past the cache phase of the current game
PastCachePhase == pc \in {"engine", "store", "process"}

\* the step is an iteration of the engine batch that raised
EngineRaised == InBatch /\ pc' = "loop" /\ outcome' = "StockfishAnalysisError"

\* C22: during the resolution of a game the progress sink advances by one per
\* position: by the number of cache hits in the cache phase and by one for
\* each position the engine completed (an evaluation, an invalid position or
\* a raise); when the resolution returns normally the total advanced is the
\* total given to reset, the number of required positions.
C22_ProgressPerPosition ==
    /\ [](PastCachePhase =>
            /\ progress.total = Cardinality(prov.required_fens)
            /\ progress.n = prov.cache_hits + prov.done)
    /\ [](prov.returned => progress.n = progress.total)
    /\ [][EngineRaised => progress'.n = progress.n + 1]_vars

\* a resolution that returned with a cache hit and an invalid position
C22_Witness ==
    /\ prov.returned
    /\ prov.cache_hits >= 1
    /\ \E fen \in DOMAIN prov.newly_analyzed : prov.newly_analyzed[fen] = None
    /\ progress.n = progress.total

\* C24: a malformed cached record is a cache miss of its position alone: the
\* batch read leaves the position out and still returns the other positions
\* it can decode, the provider hands the position to the engine, and when the
\* engine evaluates it the new evaluation replaces the malformed record.
C24_MalformedIsMiss ==
    /\ PastCachePhase =>
         \A fen \in prov.malformed :
             /\ fen \notin DOMAIN prov.cached_analyses
             /\ fen \in Sent
    /\ CacheWasRead =>
         \A fen \in prov.required_fens \ prov.malformed :
             ActiveKey(fen) \in DOMAIN cache =>
                 /\ fen \in DOMAIN prov.cached_analyses
                 /\ prov.cached_analyses[fen] = Some(json_loads(cache[ActiveKey(fen)]))
    /\ prov.returned =>
         \A fen \in prov.malformed :
             prov.newly_analyzed[fen] # None =>
                 cache[ActiveKey(fen)] = json_dumps(Val(prov.newly_analyzed[fen]))

\* the provider returned a cache hit and the evaluation that replaced a
\* malformed record
C24_Witness ==
    /\ prov.returned
    /\ prov.cache_hits >= 1
    /\ \E fen \in prov.malformed :
         /\ prov.newly_analyzed[fen] # None
         /\ Cached(fen)

\* a game is being processed
InGame == pc \in {"resolve", "engine", "store", "process"}

\* the step ends the game by exporting it
Exported ==
    /\ pc' = "loop"
    /\ outcome' = "analyzed"
    /\ outfile' = Append(outfile, game)
    /\ stats'.games_analyzed = stats.games_analyzed + 1

\* the step ends the game by an exception, or is the exit a second signal forces
FailedOrForced ==
    /\ outfile' = outfile
    /\ \/ run_end' = "forced"
       \/ /\ pc' \in {"loop", "idle"}
          /\ outcome' \in {"CacheReadError", "CacheWriteError", "StockfishError",
                           "StockfishAnalysisError", "PGNExportError", "TypeError"}

\* once the signal is set no further game is read, resolved or exported
NoFurtherGame ==
    [][ shutdown_event =>
            /\ stats'.games_read = stats.games_read
            /\ pc = "loop" => (pc' = "idle" /\ outfile' = outfile /\ cache' = cache) ]_vars

GameReturns ==
    /\ pc = "process"
    /\ prov.returned
    /\ pc' = "loop"

\* C26: the run totals of cache hits and of positions sent to the engine grow,
\* for every game whose resolution completed, by the counts the provider
\* returned for that game, games without moves included, and by nothing
\* else; a run that ends at the end of the input has
\* games read = games analyzed + games errored.
C26_TotalsMatchWork ==
    /\ [][ GameReturns =>
             /\ stats'.fen_cache_hits = stats.fen_cache_hits + prov.cache_hits
             /\ stats'.fens_analyzed_by_engine = stats.fens_analyzed_by_engine + prov.engine_runs ]_vars
    /\ [][ pc # "process" =>
             /\ stats'.fen_cache_hits = stats.fen_cache_hits
             /\ stats'.fens_analyzed_by_engine = stats.fens_analyzed_by_engine ]_vars
    /\ [](run_end = "eof" =>
            stats.games_read = stats.games_analyzed + stats.games_with_errors)

\* the game before ended by a fault of the engine batch
BatchFaulted == pc = "loop" /\ outcome = "StockfishAnalysisError"

\* C27: the cache is not written from the start of get_analyses_for_game to
\* the end of its engine batch; if the batch raises, get_analyses_for_game
\* writes nothing for the game, so the cache is as it was before the call and
\* the evaluations obtained before the fault are not in it.
C27_FaultLeavesCache ==
    /\ [][ (pc \in {"resolve", "engine"}) => (cache' = cache) ]_vars
    /\ [][ EngineRaised => (cache' = cache /\ DOMAIN prov.written = {}) ]_vars
    /\ [](BatchFaulted => \A fen \in prev.evaluated : ~Cached(fen))

\* the batch raised after it had obtained an evaluation, which is not cached
C27_Witness ==
    /\ BatchFaulted
    /\ \E fen \in prev.evaluated : ActiveKey(fen) \notin DOMAIN cache

\* the positions the cache phase of the provider answered
Hits == DOMAIN prov.cached_analyses

\* C28: when get_analyses_for_game returns, the cache-hit count plus the
\* engine-evaluated count is the number of unique required positions, the
\* positions the cache answered and the positions sent to the engine are
\* disjoint, and every required position is in exactly one of the two sets;
\* the counts are the sizes of the two sets.
C28_CountersConserved ==
    prov.returned =>
        /\ prov.cache_hits + prov.engine_runs = Cardinality(prov.required_fens)
        /\ Hits \cap Sent = {}
        /\ Hits \cup Sent = prov.required_fens
        /\ prov.cache_hits = Cardinality(Hits)
        /\ prov.engine_runs = Cardinality(Sent)
        /\ prov.engine_runs = Len(prov.fens_to_analyze)

\* a call returned with positions of both kinds
C28_Witness ==
    /\ prov.returned
    /\ prov.cache_hits >= 1
    /\ prov.engine_runs >= 1
    /\ DOMAIN prov.written # {}
    /\ Cardinality(prov.required_fens) = prov.cache_hits + prov.engine_runs

(***************************************************************************)
(* The cache on its own: batch writes and batch reads of DBManager under   *)
(* key tuples that differ in one field each, from an empty table.          *)
(***************************************************************************)
MaxBatch == 2      \* entries of one store_analyses_batch call
MaxCacheRows == 3  \* rows of the table

BaseTuple ==
    [analysis_depth |-> 18, multipv_count |-> 2, stockfish_path |-> "sf", stockfish_version |-> "16"]

CacheTuples ==
    { BaseTuple,
      [BaseTuple EXCEPT !.analysis_depth = 12],
      [BaseTuple EXCEPT !.multipv_count = 3],
      [BaseTuple EXCEPT !.stockfish_path = "sf2"],
      [BaseTuple EXCEPT !.stockfish_version = "17"] }

KeyOf(fen, t) ==
    CacheKey(fen, t.analysis_depth, t.multipv_count, t.stockfish_path, t.stockfish_version)

\* types.py: CacheEntry
CacheEntries ==
    [ key : { KeyOf(fen, t) : fen \in Fens, t \in CacheTuples },
      analysis_result : { TopMoves(fen) : fen \in Fens } ]

EntryLists == UNION { [1..n -> CacheEntries] : n \in 1..MaxBatch }

\* db_manager.py: store_analyses_batch over a list: executemany inserts the
\* rows in the order of the list
RECURSIVE store_entry_list(_, _)
store_entry_list(table, entries) ==
    IF entries = <<>> THEN table
    ELSE store_entry_list(
             store_analyses_batch(table, (entries[1].key :> entries[1].analysis_result)),
             Tail(entries))

\* history: the result last written under each key, and whether the key had
\* been written before
RECURSIVE log_entry_list(_, _)
log_entry_list(log, entries) ==
    IF entries = <<>> THEN log
    ELSE log_entry_list(
             (entries[1].key :> [ value |-> entries[1].analysis_result,
                                  rewritten |-> entries[1].key \in DOMAIN log ]) @@ log,
             Tail(entries))

\* a call of store_analyses_batch that commits, before the read
StoreBatch ==
    /\ ~cache_read.called
    /\ \E entries \in EntryLists :
         /\ cache' = store_entry_list(cache, entries)
         /\ Cardinality(DOMAIN cache') <= MaxCacheRows
         /\ cache_log' = log_entry_list(cache_log, entries)
    /\ UNCHANGED cache_read
    /\ UNCHANGED << engine_up, engine_closed, shutdown_event, stats, params, pc, input, game,
                    prov, progress, outfile, run_end, outcome, prev >>
    /\ UNCHANGED << classifier_vars, score_vars, summary_vars, engine_vars >>

\* a call of get_cached_analyses_batch after the writes
ReadBatch ==
    /\ ~cache_read.called
    /\ \E fens \in SUBSET Fens, t \in CacheTuples :
         cache_read' =
             [ called |-> TRUE, fens |-> fens, tuple |-> t,
               result |-> get_cached_analyses_batch(cache, fens, t.analysis_depth,
                              t.multipv_count, t.stockfish_path, t.stockfish_version) ]
    /\ UNCHANGED << pipeline_vars, cache_log >>
    /\ UNCHANGED << classifier_vars, score_vars, summary_vars, engine_vars >>

InitCache ==
    /\ PipelineIdle
    /\ ClassifierIdle
    /\ ScoreIdle
    /\ SummaryIdle
    /\ CacheStudyIdle
    /\ EngineStudyIdle

NextCache == StoreBatch \/ ReadBatch

SpecCache == InitCache /\ [][NextCache]_vars

(***************************************************************************)
(* Properties of the cache (SpecCache)                                     *)
(***************************************************************************)
ReadKey(fen) == KeyOf(fen, cache_read.tuple)

\* C23: after any sequence of batch writes, a batch read under a key tuple
\* (depth, line count, engine path, engine version) returns for a requested
\* position exactly the evaluation set most recently written for it under
\* the identical tuple, never an entry written under a tuple that differs
\* in a field; a position never written under that tuple is absent.
C23_CacheKeySemantics ==
    cache_read.called =>
        \A fen \in Fens :
            IF fen \in cache_read.fens /\ ReadKey(fen) \in DOMAIN cache_log
            THEN /\ fen \in DOMAIN cache_read.result
                 /\ cache_read.result[fen] = Some(cache_log[ReadKey(fen)].value)
            ELSE fen \notin DOMAIN cache_read.result

\* a read that returns a rewritten entry while the same position holds another
\* evaluation under a different tuple, and that misses another position
C23_Witness ==
    /\ cache_read.called
    /\ \E fen \in DOMAIN cache_read.result :
         /\ cache_log[ReadKey(fen)].rewritten
         /\ \E t \in CacheTuples :
              /\ t # cache_read.tuple
              /\ KeyOf(fen, t) \in DOMAIN cache_log
              /\ cache_log[KeyOf(fen, t)].value # cache_log[ReadKey(fen)].value
    /\ \E fen \in cache_read.fens : fen \notin DOMAIN cache_read.result

(***************************************************************************)
(* The engine controller on its own (stockfish_controller.py): calls of    *)
(* analyze_fens_batch one after another on one controller, and close.      *)
(* engine_call holds the call in progress or the call that ended last, and *)
(* as history whether it began after an engine fault and after close.      *)
(***************************************************************************)
MaxFenList == 2    \* positions of one analyze_fens_batch call

FenLists == UNION { [1..n -> Fens] : n \in 0..MaxFenList }

\* the call before ended with StockfishAnalysisError
EngineFaulted == engine_call.phase = "ended" /\ engine_call.exc = "StockfishAnalysisError"

\* analyze_fens_batch up to the loop: _ensure_engine_ready, and the return
\* of an empty result for an empty list
BeginBatch ==
    /\ engine_call.phase # "running"
    /\ \E fen_list \in FenLists, responsive \in BOOLEAN, init_fault \in InitFaults :
         LET ready == ensure_engine_ready(engine_up, engine_closed, responsive, init_fault)
             call == [NoCall EXCEPT !.fen_list = fen_list,
                                    !.reinit = ready.reinit,
                                    !.after_fault = EngineFaulted,
                                    !.after_close = engine_closed]
         IN  /\ engine_up' = ready.up
             /\ engine_call' =
                  IF ready.exc # "" THEN [call EXCEPT !.phase = "ended", !.exc = ready.exc]
                  ELSE IF fen_list = <<>> THEN [call EXCEPT !.phase = "ended"]
                  ELSE [call EXCEPT !.phase = "running"]
    /\ UNCHANGED << cache, engine_closed, shutdown_event, stats, params, pc, input, game,
                    prov, progress, outfile, run_end, outcome, prev, classifier_vars,
                    score_vars, summary_vars, cache_vars >>

\* one turn of the loop of analyze_fens_batch
EvaluateFen ==
    /\ engine_call.phase = "running"
    /\ LET fen == engine_call.fen_list[engine_call.done + 1]
           step(result) ==
               [engine_call EXCEPT
                  !.done = @ + 1,
                  !.results = (fen :> result) @@ @,
                  !.phase = IF engine_call.done + 1 = Len(engine_call.fen_list)
                            THEN "ended" ELSE "running"]
       IN
       \/ \* is_fen_valid(fen) is false
          /\ engine_call' = step(None)
          /\ UNCHANGED engine_up
       \/ \* get_top_moves
          /\ engine_call' = step(Some(TopMoves(fen)))
          /\ UNCHANGED engine_up
       \/ \* StockfishException: the handle is dropped, StockfishAnalysisError
          /\ engine_up' = FALSE
          /\ engine_call' = [engine_call EXCEPT !.phase = "ended",
                                                !.exc = "StockfishAnalysisError"]
    /\ UNCHANGED << cache, engine_closed, shutdown_event, stats, params, pc, input, game,
                    prov, progress, outfile, run_end, outcome, prev, classifier_vars,
                    score_vars, summary_vars, cache_vars >>

\* close(), called when the with block of run is left; a call in progress
\* is then being left by SystemExit
CloseController ==
    /\ ~engine_closed
    /\ ControllerClose
    /\ engine_call' = IF engine_call.phase = "running"
                      THEN [engine_call EXCEPT !.phase = "ended", !.exc = "SystemExit"]
                      ELSE engine_call
    /\ UNCHANGED << cache, shutdown_event, stats, params, pc, input, game,
                    prov, progress, outfile, run_end, outcome, prev, classifier_vars,
                    score_vars, summary_vars, cache_vars >>

InitEngine ==
    /\ PipelineIdle
    /\ ClassifierIdle
    /\ ScoreIdle
    /\ SummaryIdle
    /\ CacheStudyIdle
    /\ EngineStudyIdle

NextEngine == BeginBatch \/ EvaluateFen \/ CloseController

SpecEngine == InitEngine /\ [][NextEngine]_vars

(***************************************************************************)
(* Properties of the engine controller (SpecEngine)                        *)
(***************************************************************************)
\* the positions of the list of the call
Listed == { engine_call.fen_list[i] : i \in 1..Len(engine_call.fen_list) }

\* C30: after analyze_fens_batch raised an engine fault the controller holds
\* no engine handle; the call after it re-initializes the engine before
\* anything else, raises StockfishError without evaluating if that fails,
\* and otherwise evaluates its batch; from close() on the controller holds no
\* handle, stays closed, and every call raises StockfishError without
\* re-initializing and without evaluating.
C30_EngineRecovery ==
    /\ EngineFaulted => ~engine_up
    /\ (engine_call.after_fault /\ ~engine_call.after_close) =>
          /\ engine_call.reinit
          /\ engine_call.exc \in {"", "StockfishError", "StockfishAnalysisError", "SystemExit"}
          /\ engine_call.exc = "StockfishError" => (engine_call.done = 0 /\ ~engine_up)
          /\ (engine_call.phase = "ended" /\ engine_call.exc = "") =>
                ((engine_up \/ engine_closed) /\ DOMAIN engine_call.results = Listed)
    /\ engine_closed => ~engine_up
    /\ engine_call.after_close =>
          /\ engine_closed
          /\ engine_call.phase = "ended"
          /\ engine_call.exc = "StockfishError"
          /\ ~engine_call.reinit
          /\ engine_call.done = 0
          /\ engine_call.results = <<>>

\* a call after a fault re-initialized the engine and evaluated two positions
C30_Witness ==
    /\ engine_call.after_fault
    /\ engine_call.reinit
    /\ engine_call.phase = "ended"
    /\ engine_call.exc = ""
    /\ engine_call.done = MaxFenList
    /\ engine_up

====
